---- MODULE Spec2Model ----
(***************************************************************************)
(* A model of the marketing research scripts: validate_and_save.py,        *)
(* add_link.py, download_file.py, create_research.py (ResearchScaffold),   *)
(* propose_schema.py and the helpers of utils.py (StructuredLogger,        *)
(* RateLimiter, build_retry_session, load_schema_config).  Spec follows    *)
(* one script through its runs; SpecConcurrent follows two invocations of  *)
(* validate_and_save.py at once.                                           *)
(*                                                                         *)
(* Strings are sequences of one-character strings, so that lower(),        *)
(* strip(), replace(), startswith() and the slug of a vendor name are      *)
(* computed the way the code computes them.                                *)
(***************************************************************************)
EXTENDS Integers, Sequences, FiniteSets, TLC

(***************************************************************************)
(* Bounds of the model.                                                    *)
(***************************************************************************)
\* record files one subdirectory may hold before the scripts stop saving
MaxFiles == 3
\* seconds on the monotonic clock of the rate limiter
MaxTime == 6
\* wait() calls made on one RateLimiter
MaxCalls == 3
\* events logged through one StructuredLogger
MaxEvents == 2
\* URLs in one batch of add_link.py or download_file.py
MaxBatch == 2
\* downloaded files that may exist when download_file.py starts a run
MaxKept == 0

(***************************************************************************)
(* Text.                                                                   *)
(***************************************************************************)
\* the upper-case letters of the model's alphabet and their lower-case forms
Upper == <<"A", "B", "V", "N", "M", "C", "P">>

Lowered == <<"a", "b", "v", "n", "m", "c", "p">>

OtherLetters == {"h", "t", "p", "o", "e", "u", "k", "w"}

Digits == {"0", "1", "2", "3", "4", "5", "6", "7", "8", "9"}

\* str.lower() on one character
LowerChar(c) ==
    IF \E i \in 1..Len(Upper) : Upper[i] = c
    THEN Lowered[CHOOSE i \in 1..Len(Upper) : Upper[i] = c]
    ELSE c

\* str.lower()
Lower(s) == [i \in 1..Len(s) |-> LowerChar(s[i])]

\* str.isalnum() on one character
IsAlnum(c) ==
    \/ \E i \in 1..Len(Upper) : Upper[i] = c \/ Lowered[i] = c
    \/ c \in OtherLetters
    \/ c \in Digits

IsSpace(c) == c \in {" ", "\n"}

\* str.strip() leaves the empty string exactly for a string of whitespace
IsBlank(s) == \A i \in 1..Len(s) : IsSpace(s[i])

RECURSIVE StripLeft(_)
StripLeft(s) == IF s # <<>> /\ IsSpace(Head(s)) THEN StripLeft(Tail(s)) ELSE s

RECURSIVE StripRight(_)
StripRight(s) ==
    IF s # <<>> /\ IsSpace(s[Len(s)]) THEN StripRight(SubSeq(s, 1, Len(s) - 1)) ELSE s

\* str.strip()
Strip(s) == StripRight(StripLeft(s))

\* str.startswith("http")
StartsWithHttp(s) == Len(s) >= 4 /\ SubSeq(s, 1, 4) = <<"h", "t", "t", "p">>

RECURSIVE SlugChars(_)
\* lower().replace(" ", "_").replace(".", ""), then keep isalnum() or "_"
SlugChars(s) ==
    IF s = <<>> THEN <<>>
    ELSE LET c == LowerChar(Head(s))
             d == IF c = " " THEN "_" ELSE c
         IN  IF d = "." THEN SlugChars(Tail(s))
             ELSE IF IsAlnum(d) \/ d = "_" THEN <<d>> \o SlugChars(Tail(s))
             ELSE SlugChars(Tail(s))

RECURSIVE DigitsOf(_)
\* str(n) for n >= 0
DigitsOf(n) ==
    LET d == CHOOSE c \in Digits : c = ToString(n % 10)
    IN  IF n < 10 THEN <<d>> ELSE DigitsOf(n \div 10) \o <<d>>

(***************************************************************************)
(* Records: a mapping of field name to value.  A value is a JSON scalar:   *)
(* k is its Python type and s is what str() makes of it.                   *)
(***************************************************************************)
StrV(s) == [k |-> "str", s |-> s]

NullV == [k |-> "null", s |-> <<"N", "o", "n", "e">>]

NumV(s) == [k |-> "num", s |-> s]

\* str(value)
Str(v) == v.s

\* data.get(key): None for a missing key
Get(data, key) == IF key \in DOMAIN data THEN data[key] ELSE NullV

\* str(data.get(key, default))
GetStr(data, key, default) ==
    IF key \in DOMAIN data THEN Str(data[key]) ELSE default

\* bool(value): None, "" and 0 are false
Truthy(v) ==
    /\ v.k # "null"
    /\ v.s # <<>>
    /\ ~(v.k = "num" /\ v.s = <<"0">>)

(***************************************************************************)
(* utils.py: the schema configuration and the retrying session.            *)
(***************************************************************************)
\* the status codes a server of the model answers with
Statuses == {200, 404, 500}

DEFAULT_ALLOWED_STATUS == {200, 201, 301, 302}

\* "x or default" on a list read from the schema (an empty or missing list
\* is false)
OrDefault(x, default) == IF x = {} THEN default ELSE x

\* Validator.__init__: self.allowed_status
AllowedStatus(schema) == OrDefault(schema.allowed_status, DEFAULT_ALLOWED_STATUS)

\* Validator.__init__: retry.status_forcelist or url_checks.retry_status
SchemaForcelist(schema) == OrDefault(schema.status_forcelist, schema.retry_status)

\* a build_retry_session that adds the given list to the default one
AddedForcelist(status_forcelist) == status_forcelist \cup DEFAULT_ALLOWED_STATUS

\* build_retry_session: list(status_forcelist or DEFAULT_ALLOWED_STATUS)
RetryForcelist(status_forcelist) == OrDefault(status_forcelist, DEFAULT_ALLOWED_STATUS)

\* What one session.request() call ends with.  served is the status the
\* server answers with (0: the connection fails or times out).  The Retry
\* policy repeats the request while the answer's status is in
\* status_forcelist and raises RetryError, a RequestException, once the
\* retries are used up, so a response reaches the caller only with a status
\* outside the forcelist.
Exc == [exc |-> TRUE, status |-> 0, served |-> 0]

RetryError(code) == [exc |-> TRUE, status |-> 0, served |-> code]

Resp(code) == [exc |-> FALSE, status |-> code, served |-> code]

SessionRequest(served, status_forcelist) ==
    IF served = 0 THEN Exc
    ELSE IF served \in RetryForcelist(status_forcelist) THEN RetryError(served)
    ELSE Resp(served)

RequestOutcomes(status_forcelist) ==
    {SessionRequest(served, status_forcelist) : served \in Statuses \cup {0}}

(***************************************************************************)
(* validate_and_save.py: Validator.validate, as pure functions of the      *)
(* record, the schema, the answers of the network and the stored records.  *)
(***************************************************************************)
Err(t, f) == [t |-> t, f |-> f]

\* a validate() without the loop over the required fields
NoRequiredErrors(data, required) == <<>>

RECURSIVE RequiredErrors(_, _)
\* validate(): one "Missing required field" error per entry of required whose
\* str(data.get(field, "")).strip() is empty
RequiredErrors(data, required) ==
    IF required = <<>> THEN <<>>
    ELSE (IF IsBlank(GetStr(data, Head(required), <<>>))
          THEN <<Err("missing", Head(required))>>
          ELSE <<>>) \o RequiredErrors(data, Tail(required))

\* validate(): the errors one entry of fields adds
RuleErrors(data, rule) ==
    LET value == Get(data, rule.name)
    IN  IF value.k = "null" THEN <<>>
        ELSE IF rule.type = "string" THEN
            IF value.k # "str" THEN <<Err("type", rule.name)>>
            ELSE (IF \E m \in rule.min_length : Len(value.s) < m
                  THEN <<Err("short", rule.name)>> ELSE <<>>)
              \o (IF \E m \in rule.max_length : Len(value.s) > m
                  THEN <<Err("long", rule.name)>> ELSE <<>>)
        ELSE IF rule.type = "enum" THEN
            IF ~(value.k = "str" /\ value.s \in rule.values)
            THEN <<Err("enum", rule.name)>> ELSE <<>>
        ELSE IF rule.type = "url" THEN
            IF ~(value.k = "str" /\ StartsWithHttp(value.s))
            THEN <<Err("url_format", rule.name)>> ELSE <<>>
        ELSE <<>>

\* validate(): the warning one entry of fields adds
RuleWarnings(data, rule) ==
    IF Get(data, rule.name).k = "null" /\ rule.presence = "recommended"
    THEN <<Err("recommended", rule.name)>>
    ELSE <<>>

RECURSIVE FieldErrors(_, _)
FieldErrors(data, rules) ==
    IF rules = <<>> THEN <<>>
    ELSE RuleErrors(data, Head(rules)) \o FieldErrors(data, Tail(rules))

RECURSIVE FieldWarnings(_, _)
FieldWarnings(data, rules) ==
    IF rules = <<>> THEN <<>>
    ELSE RuleWarnings(data, Head(rules)) \o FieldWarnings(data, Tail(rules))

\* validate(): isinstance(website_url, str) and website_url.startswith("http")
HasHttpUrl(data) ==
    LET v == Get(data, "website_url") IN v.k = "str" /\ StartsWithHttp(v.s)

\* a _verify_url() that falls back whatever the configured method is
FallbackForAnyMethod(method, allowed, first) ==
    ~first.exc /\ first.status \notin allowed

\* _verify_url(): whether a second request, the GET fallback, follows the
\* first one
NeedsFallback(method, allowed, first) ==
    ~first.exc /\ first.status \notin allowed /\ method # "GET"

\* _verify_url(): the requests made, given what the network answers to the
\* first request and to the fallback
Requests(method, allowed, first, second) ==
    IF NeedsFallback(method, allowed, first) THEN <<first, second>> ELSE <<first>>

\* a _verify_url() that reports every URL as existing
AlwaysExists(allowed, resps) == TRUE

\* _verify_url(): status_ok of the last response; False on RequestException
VerifyUrl(allowed, resps) ==
    LET last == resps[Len(resps)]
    IN  ~last.exc /\ last.status \in allowed

\* rate_limiter.wait() and session.request(method, ...), as calls made
WaitCall == [call |-> "wait", method |-> "-"]

RequestCall(method) == [call |-> "request", method |-> method]

\* _verify_url(): its calls, in order: one wait(), the request with the
\* configured method and, when it is made, the GET fallback
VerifyCalls(method, resps) ==
    <<WaitCall, RequestCall(method)>>
        \o (IF Len(resps) = 2 THEN <<RequestCall("GET")>> ELSE <<>>)

\* an _is_duplicate() that finds no match
NeverDuplicate(data, keys, stored) == FALSE

\* an _is_duplicate() that compares the values without lower()
ExactDuplicate(data, keys, stored) ==
    \E name \in DOMAIN stored : \E key \in keys :
        /\ key \in DOMAIN stored[name] /\ key \in DOMAIN data
        /\ stored[name][key].s # <<>> /\ data[key].s # <<>>
        /\ stored[name][key].s = data[key].s

\* _is_duplicate(): some stored record matches on one of the keys
IsDuplicate(data, keys, stored) ==
    \E name \in DOMAIN stored : \E key \in keys :
        /\ Truthy(Get(stored[name], key))
        /\ Truthy(Get(data, key))
        /\ Lower(Str(stored[name][key])) = Lower(Str(data[key]))

\* a validate() that matches duplicates on the name alone
NameKeyOnly(schema) == {"vendor_name"}

\* validate(): duplicates.keys of the schema, or the default pair
DuplicateKeys(schema) == OrDefault(schema.duplicate_keys, {"vendor_name", "website_url"})

(***************************************************************************)
(* validate_and_save.py: Validator.save.                                   *)
(***************************************************************************)
\* save(): models_dir / f"{slug}.json" and models_dir / f"{slug}_v{counter}.json"
FileName(slug, counter) ==
    IF counter = 0 THEN slug \o <<".json">>
    ELSE slug \o <<"_", "v">> \o DigitsOf(counter) \o <<".json">>

RECURSIVE FirstFree(_, _, _)
\* save(): while (models_dir / f"{slug}_v{counter}.json").exists(): counter += 1
FirstFree(slug, stored, counter) ==
    IF FileName(slug, counter) \in DOMAIN stored
    THEN FirstFree(slug, stored, counter + 1)
    ELSE counter

\* save(): the slug of str(data.get("vendor_name", "unknown"))
SlugOf(data) == SlugChars(GetStr(data, "vendor_name", <<"u", "n", "k", "n", "o", "w", "n">>))

\* a save() that takes <slug>.json whether or not it exists
OverwriteFile(data, stored) == FileName(SlugOf(data), 0)

\* save(): the file the record is written to
ModelFile(data, stored) ==
    IF FileName(SlugOf(data), 0) \in DOMAIN stored
    THEN FileName(SlugOf(data), FirstFree(SlugOf(data), stored, 1))
    ELSE FileName(SlugOf(data), 0)

\* a save() that writes the record as it came
Unstamped(data, now) == data

\* save(): model_id (the md5 digest, kept as the text it is taken of),
\* date_saved and validated stamped onto the record
Stamped(data, now) ==
    LET source == GetStr(data, "vendor_name", <<"u", "n", "k", "n", "o", "w", "n">>)
                    \o GetStr(data, "website_url", <<>>)
        stamps == [model_id |-> [k |-> "md5", s |-> source],
                   date_saved |-> [k |-> "time", s |-> DigitsOf(now)],
                   validated |-> [k |-> "bool", s |-> <<"T", "r", "u", "e">>]]
    IN  [key \in DOMAIN data \cup DOMAIN stamps |->
            IF key \in DOMAIN stamps THEN stamps[key] ELSE data[key]]

\* save(): model_file.open("w") and json.dump(data)
Save(data, stored, now) ==
    LET target == ModelFile(data, stored)
    IN  [name \in DOMAIN stored \cup {target} |->
            IF name = target THEN Stamped(data, now) ELSE stored[name]]

(***************************************************************************)
(* The inputs of the model: schemas, records and what stdin holds.         *)
(***************************************************************************)
Rule(name, type, presence) ==
    [name |-> name, type |-> type, presence |-> presence,
     min_length |-> {}, max_length |-> {}, values |-> {}]

\* a company schema: both fields required, HEAD with the default allowed
\* statuses, its own retry forcelist, the default duplicate keys
SchemaA ==
    [required |-> <<"vendor_name", "website_url">>,
     fields |-> << [Rule("vendor_name", "string", "required")
                        EXCEPT !.min_length = {2}, !.max_length = {3}],
                   Rule("website_url", "url", "required"),
                   [Rule("hq_region", "enum", "recommended")
                        EXCEPT !.values = {<<"n", "a">>}] >>,
     allowed_status |-> {},
     method |-> "HEAD",
     status_forcelist |-> {500},
     retry_status |-> {},
     duplicate_keys |-> {}]

\* a schema that requires the name only, checks with GET, allows 404, names
\* no forcelist and matches duplicates on the name
SchemaB ==
    [required |-> <<"vendor_name">>,
     fields |-> <<>>,
     allowed_status |-> {200, 404},
     method |-> "GET",
     status_forcelist |-> {},
     retry_status |-> {},
     duplicate_keys |-> {"vendor_name"}]

Schemas == {SchemaA, SchemaB}

\* load_schema_config raises FileNotFoundError when neither file exists
NoSchema == <<>>

SchemaFiles == {<<sc>> : sc \in Schemas} \cup {NoSchema}

Record(vendor_name, website_url, hq_region) ==
    LET given == [vendor_name |-> vendor_name, website_url |-> website_url,
                  hq_region |-> hq_region]
    IN  [key \in {k \in DOMAIN given : given[k] # <<>>} |-> given[key][1]]

UrlA == <<"h", "t", "t", "p", ":", "a">>

UrlUpperA == <<"h", "t", "t", "p", ":", "A">>

UrlB == <<"h", "t", "t", "p", ":", "b">>

Records ==
    { Record(<<StrV(<<"A", ".", "b">>)>>, <<StrV(UrlA)>>, <<StrV(<<"n", "a">>)>>),
      Record(<<StrV(<<"a", ".", "b">>)>>, <<StrV(UrlUpperA)>>, <<>>),
      Record(<<StrV(<<"a", "b", " ", "v", "1">>)>>, <<StrV(UrlB)>>, <<StrV(<<"n", "a">>)>>),
      Record(<<>>, <<StrV(UrlA)>>, <<StrV(<<"e", "u">>)>>),
      Record(<<StrV(<<" ">>)>>, <<StrV(<<>>)>>, <<StrV(<<"n", "a">>)>>),
      Record(<<NullV>>, <<NumV(<<"7">>)>>, <<>>) }

NoData == [key \in {} |-> NullV]

\* stdin: nothing, text that is neither a JSON object nor key: value lines,
\* or a record
Inputs ==
    {[kind |-> "empty", data |-> NoData], [kind |-> "unparseable", data |-> NoData]}
        \cup {[kind |-> "record", data |-> r] : r \in Records}

\* DictWriter.writeheader(): the line of column names
HeaderLine == [url |-> <<"u", "r", "l">>]

\* a row of verified_links.csv that was not written by persist()
KnownRow == [url |-> UrlA, status_code |-> <<200>>]

\* verified_links.csv as add_link.py may find it: absent, or holding a row
VerifiedFiles == {<<>>, <<HeaderLine, KnownRow>>}

(***************************************************************************)
(* The state.  One behaviour follows one of the scripts (or one            *)
(* RateLimiter, or one StructuredLogger) through any number of runs        *)
(* against the same research subdirectory.                                 *)
(***************************************************************************)
VARIABLES
    script,      \* the unit the behaviour follows
    pc,          \* where the current run stands
    options,     \* [force, dry_run, output] of the current run, or ScaffoldOptions
    input,       \* what the current run reads from stdin
    schemaFile,  \* the schema configuration the current run finds
    schemasDir,  \* requirements-and-schemas/schemas: <<>> while absent, else what made it
    manifest,    \* what the current run wrote to <script>_result.json: <<>> or <<summary>>
    manifestWrites, \* write_manifest calls of the current run
    manifests,   \* the manifest files of the log directory: path -> payload
    exit,        \* "none" while running, then "zero" or "nonzero"
    \* validate_and_save.py
    data,        \* the record under validation
    outcome,     \* ValidationOutcome: errors, warnings, duplicate_detected, saved_file
    responses,   \* what the requests of the current live check ended with
    files,       \* data-models/validated/<subdir>/data: file name -> record
    clock,       \* datetime.now(), in saves made so far
    \* add_link.py and download_file.py
    rows,        \* the URLs of the batch
    idx,         \* the row the loop of process() / download_all() is at
    batch,       \* LinkOutcome / DownloadOutcome
    existing_urls, \* process(): the URLs known as verified
    linkFiles,   \* verified_links.csv and rejected_links.csv: their lines
    downloads,   \* the files downloads were written to: path -> content
    \* RateLimiter
    limiter,     \* requests_per_minute (0: none) and _last_call (<<>>: None)
    now,         \* time.monotonic(), in seconds
    sleeping,    \* <<>>, or <<t>> while wait() sleeps until t
    calls,       \* the wait() calls made: when each began and returned
    \* StructuredLogger
    logger,      \* _events and _printed_states
    logStep,     \* where the current log() call stands
    console,     \* the lines printed
    logFiles,    \* the session log and latest.log.json: their lines
    \* create_research.py
    research,    \* research/<slug>, for each slug: its directories and files
    returned,    \* what the last ResearchScaffold.run() ended with
    \* propose_schema.py
    schemaStore, \* requirements-and-schemas/schemas: <name>.schema.json -> schema
    schemaResult, \* SchemaValidationResult: errors and warnings
    manifestFile, \* the file at --manifest: <<>> while absent, else <<payload>>
    \* the calls of the last _verify_url() / _download_single(), in order
    wire,
    \* validate_and_save.py, two processes at once
    procs        \* each process: where it stands and what it holds

common == <<script, pc, options, input, schemaFile, schemasDir,
           manifest, manifestWrites, manifests, exit>>

validatorVars == <<data, outcome, responses, files, clock>>

batchVars == <<rows, idx, batch, existing_urls, linkFiles, downloads>>

limiterVars == <<limiter, now, sleeping, calls>>

loggerVars == <<logger, logStep, console, logFiles>>

scaffoldVars == <<research, returned>>

concVars == <<procs>>

schemaVars == <<schemaStore, schemaResult, manifestFile>>

vars == <<common, validatorVars, batchVars, limiterVars, loggerVars, scaffoldVars, concVars,
          schemaVars, wire>>

NoOutcome ==
    [errors |-> <<>>, warnings |-> <<>>, duplicate_detected |-> FALSE, saved_file |-> <<>>]

NoFiles == [name \in {} |-> NoData]

\* a directory that does not exist
NoDir == <<>>

\* a path helper that makes no directory
NoMkdir(dir, by) == dir

\* path.mkdir(parents=True, exist_ok=True)
Mkdir(dir, by) == IF dir = NoDir THEN <<by>> ELSE dir

\* load_schema_config(): paths.schemas(), then the configuration file the
\* directory holds for the type, if any
SchemasAfterLoad(dir) == Mkdir(dir, "load_schema_config")

FoundSchemas(dir) == IF dir = NoDir THEN {NoSchema} ELSE SchemaFiles

NoBatch == [verified |-> <<>>, rejected |-> <<>>, duplicates |-> <<>>, errors |-> <<>>,
            results |-> <<>>, scraper |-> FALSE]

Scripts == {"validate_and_save", "add_link", "download_file"}

\* the slugs the model gives ResearchScaffold: one that matches SLUG_PATTERN
\* and one that does not
Slugs == {<<"a", "i">>, <<"A", "i">>}

\* _requirements_path() and _audit_path(), relative to the research root
RequirementsPath == "requirements-and-schemas/requirements/initial-requirements.md"

AuditPath == "requirements-and-schemas/requirements/audit-trail.md"

\* research/<slug> before anything made it, as a bare directory, and with an
\* audit trail but no requirements (the case run() tests audit_path.exists()
\* for)
NoTree == [dirs |-> {}, files |-> NoFiles]

RootOnly == [dirs |-> {"."}, files |-> NoFiles]

AuditOnly ==
    [dirs |-> {".", "requirements-and-schemas",
               "requirements-and-schemas/requirements"},
     files |-> [name \in {AuditPath} |-> <<"## note">>]]

NoReturn == [exc |-> "none", outcome |-> <<>>]

\* SchemaValidationResult before validate()
NoResult == [errors |-> <<>>, warnings |-> <<>>]

\* the ceilings the model gives a RateLimiter; 0 stands for None
Rates == {0, 20, 30, 60}

Init ==
    /\ script \in Scripts \cup {"RateLimiter", "StructuredLogger", "create_research",
                               "propose_schema"}
    /\ pc = "idle"
    /\ options = [force |-> FALSE, dry_run |-> FALSE, output |-> FALSE]
    /\ input = [kind |-> "empty", data |-> NoData]
    /\ schemaFile = NoSchema
    /\ schemasDir = NoDir
    /\ manifest = <<>>
    /\ manifestWrites = 0
    /\ manifests = NoFiles
    /\ exit = "none"
    /\ data = NoData
    /\ outcome = NoOutcome
    /\ responses = <<>>
    /\ files = NoFiles
    /\ clock = 0
    /\ rows = <<>>
    /\ idx = 1
    /\ batch = NoBatch
    /\ existing_urls = {}
    /\ linkFiles \in {[verified |-> v, rejected |-> <<>>] :
                          v \in IF script = "add_link" THEN VerifiedFiles ELSE {<<>>}}
    /\ downloads = NoFiles
    /\ limiter \in {[requests_per_minute |-> r, last_call |-> <<>>] :
                        r \in IF script = "RateLimiter" THEN Rates ELSE {0}}
    /\ now = 0
    /\ sleeping = <<>>
    /\ calls = <<>>
    /\ logger = [events |-> <<>>, printed_states |-> {}]
    /\ logStep = "idle"
    /\ console = <<>>
    /\ logFiles = [session |-> <<>>, latest |-> <<>>]
    /\ research \in [Slugs -> IF script = "create_research"
                                THEN {NoTree, RootOnly, AuditOnly}
                                ELSE {NoTree}]
    /\ returned = NoReturn
    /\ procs = <<>>
    /\ schemaStore = NoFiles
    /\ schemaResult = NoResult
    /\ manifestFile = <<>>
    /\ wire = <<>>

(***************************************************************************)
(* validate_and_save.py: main.                                             *)
(***************************************************************************)
\* main(): parse_args, ValidationOptions, StructuredLogger; stdin is read
VStart ==
    /\ script = "validate_and_save"
    /\ pc \in {"idle", "done"}
    /\ Cardinality(DOMAIN files) < MaxFiles
    /\ \E force \in BOOLEAN, dry_run \in BOOLEAN :
           options' = [force |-> force, dry_run |-> dry_run, output |-> FALSE]
    /\ input' = [kind |-> "empty", data |-> NoData]
    /\ schemaFile' = NoSchema
    /\ data' = NoData
    /\ outcome' = NoOutcome
    /\ responses' = <<>>
    /\ manifestWrites' = 0
    /\ exit' = "none"
    /\ manifest' = <<>>
    /\ wire' = <<>>
    /\ UNCHANGED <<manifests, schemasDir>>
    /\ pc' = "parse_input"
    /\ UNCHANGED <<script, files, clock>>
    /\ UNCHANGED <<batchVars, limiterVars, loggerVars>>
    /\ UNCHANGED <<scaffoldVars, concVars, schemaVars>>

\* flush_summary(): manifest_path
ManifestPath(script_name) == <<script_name, "_result.json">>

\* a flush_summary() that leaves a manifest file it finds as it is
KeepFirst(stored, path, payload) ==
    IF path \in DOMAIN stored THEN stored
    ELSE [name \in DOMAIN stored \cup {path} |->
             IF name = path THEN payload ELSE stored[name]]

\* flush_summary(): manifest_path.open("w") and json.dump(payload)
FlushSummary(stored, path, payload) ==
    [name \in DOMAIN stored \cup {path} |->
        IF name = path THEN payload ELSE stored[name]]

\* flush_summary(): payload.  Of the keys of the summary the manifest files
\* of the model keep those that tell one run from another; the whole summary
\* of the current run is in the variable manifest.
Payload(summary) ==
    [key \in DOMAIN summary \cap {"script", "status", "saved_file"} |-> summary[key]]

\* write_manifest(): logger.flush_summary(summary)
WriteManifest(summary) ==
    /\ manifest' = <<summary>>
    /\ manifestWrites' = manifestWrites + 1
    /\ manifests' = FlushSummary(manifests, ManifestPath(script), Payload(summary))

Summary(status, errors, warnings, saved_file, duplicate_detected) ==
    [script |-> script, status |-> status, errors |-> errors, warnings |-> warnings,
     dry_run |-> options.dry_run, saved_file |-> saved_file,
     duplicate_detected |-> duplicate_detected]

\* main(): sys.stdin.read() and parse_input(raw_input); on ValueError the
\* failed summary is written and sys.exit(1) follows
VParseInput ==
    /\ script = "validate_and_save"
    /\ pc = "parse_input"
    /\ input' \in Inputs
    /\ IF input'.kind = "record"
       THEN /\ data' = input'.data
            /\ pc' = "init"
            /\ UNCHANGED <<manifest, manifestWrites, manifests>>
       ELSE /\ WriteManifest(Summary("failed", <<Err("input", input'.kind)>>, <<>>, <<>>, FALSE))
            /\ pc' = "exit_1"
            /\ UNCHANGED data
    /\ UNCHANGED <<script, options, schemaFile, schemasDir, outcome, responses, files, clock, exit>>
    /\ UNCHANGED <<batchVars, limiterVars, loggerVars>>
    /\ UNCHANGED <<scaffoldVars, concVars, schemaVars, wire>>

\* main(): Validator(paths, options, logger); load_schema_config raises
\* FileNotFoundError, which nothing catches
VInit ==
    /\ script = "validate_and_save"
    /\ pc = "init"
    /\ schemaFile' \in FoundSchemas(schemasDir)
    /\ schemasDir' = SchemasAfterLoad(schemasDir)
    /\ IF schemaFile' = NoSchema
       THEN pc' = "done" /\ exit' = "nonzero"
       ELSE pc' = "field_checks" /\ UNCHANGED exit
    /\ UNCHANGED <<script, options, input, data, outcome, responses,
                   files, clock, manifest, manifestWrites, manifests>>
    /\ UNCHANGED <<batchVars, limiterVars, loggerVars>>
    /\ UNCHANGED <<scaffoldVars, concVars, schemaVars, wire>>

Schema == schemaFile[1]

\* validate(): the required fields, then the field rules
VFieldChecks ==
    /\ script = "validate_and_save"
    /\ pc = "field_checks"
    /\ outcome' = [outcome EXCEPT
            !.errors = RequiredErrors(data, Schema.required) \o FieldErrors(data, Schema.fields),
            !.warnings = FieldWarnings(data, Schema.fields)]
    /\ pc' = "verify_url"
    /\ UNCHANGED <<script, options, input, schemaFile, schemasDir, data, responses,
                   files, clock, manifest, manifestWrites, manifests, exit>>
    /\ UNCHANGED <<batchVars, limiterVars, loggerVars>>
    /\ UNCHANGED <<scaffoldVars, concVars, schemaVars, wire>>

\* validate(): the live check of website_url, through _verify_url()
VVerifyUrl ==
    /\ script = "validate_and_save"
    /\ pc = "verify_url"
    /\ IF HasHttpUrl(data)
       THEN \E first, second \in RequestOutcomes(SchemaForcelist(Schema)) :
              LET resps == Requests(Schema.method, AllowedStatus(Schema), first, second)
              IN  /\ second = resps[Len(resps)]
                  /\ responses' = resps
                  /\ wire' = VerifyCalls(Schema.method, resps)
                  /\ outcome' = [outcome EXCEPT !.errors =
                        IF VerifyUrl(AllowedStatus(Schema), resps) THEN @
                        ELSE Append(@, Err("url_does_not_exist", "website_url"))]
       ELSE UNCHANGED <<responses, outcome, wire>>
    /\ pc' = "duplicate_check"
    /\ UNCHANGED <<script, options, input, schemaFile, schemasDir, data,
                   files, clock, manifest, manifestWrites, manifests, exit>>
    /\ UNCHANGED <<batchVars, limiterVars, loggerVars>>
    /\ UNCHANGED <<scaffoldVars, concVars, schemaVars>>

\* validate(): _is_duplicate() over the stored records
VDuplicateCheck ==
    /\ script = "validate_and_save"
    /\ pc = "duplicate_check"
    /\ outcome' =
          IF IsDuplicate(data, DuplicateKeys(Schema), files)
          THEN [outcome EXCEPT !.duplicate_detected = TRUE,
                               !.errors = Append(@, Err("duplicate", ""))]
          ELSE outcome
    /\ pc' = "decide"
    /\ UNCHANGED <<script, options, input, schemaFile, schemasDir, data, responses,
                   files, clock, manifest, manifestWrites, manifests, exit>>
    /\ UNCHANGED <<batchVars, limiterVars, loggerVars>>
    /\ UNCHANGED <<scaffoldVars, concVars, schemaVars, wire>>

\* a run in which no error holds a record back
ErrorsPass == FALSE

\* main(): "if outcome.errors and not options.force"
BlockedByErrors == outcome.errors # <<>> /\ ~options.force

\* main(): the errors of an unforced run: the failed summary
VFailed ==
    /\ script = "validate_and_save"
    /\ pc = "decide"
    /\ BlockedByErrors
    /\ WriteManifest(Summary("failed", outcome.errors, outcome.warnings, <<>>,
                             outcome.duplicate_detected))
    /\ pc' = "exit_1"
    /\ UNCHANGED <<script, options, input, schemaFile, schemasDir, data, outcome, responses,
                   files, clock, exit>>
    /\ UNCHANGED <<batchVars, limiterVars, loggerVars>>
    /\ UNCHANGED <<scaffoldVars, concVars, schemaVars, wire>>

\* a run in which no warning holds a record back
WarningsPass == FALSE

\* main(): "if outcome.warnings and not options.force"
HeldByWarnings == outcome.warnings # <<>> /\ ~options.force

\* main(): the warnings of an unforced run: needs_attention
VNeedsAttention ==
    /\ script = "validate_and_save"
    /\ pc = "decide"
    /\ ~BlockedByErrors
    /\ HeldByWarnings
    /\ WriteManifest(Summary("needs_attention", outcome.errors, outcome.warnings, <<>>,
                             outcome.duplicate_detected))
    /\ pc' = "exit_1"
    /\ UNCHANGED <<script, options, input, schemaFile, schemasDir, data, outcome, responses,
                   files, clock, exit>>
    /\ UNCHANGED <<batchVars, limiterVars, loggerVars>>
    /\ UNCHANGED <<scaffoldVars, concVars, schemaVars, wire>>

\* main(): "if not options.dry_run": validator.save(data)
VSave ==
    /\ script = "validate_and_save"
    /\ pc = "decide"
    /\ ~BlockedByErrors
    /\ ~HeldByWarnings
    /\ ~options.dry_run
    /\ clock' = clock + 1
    /\ files' = Save(data, files, clock')
    /\ data' = Stamped(data, clock')
    /\ outcome' = [outcome EXCEPT !.saved_file = <<ModelFile(data, files)>>]
    /\ pc' = "summary"
    /\ UNCHANGED <<script, options, input, schemaFile, schemasDir, responses,
                   manifest, manifestWrites, manifests, exit>>
    /\ UNCHANGED <<batchVars, limiterVars, loggerVars>>
    /\ UNCHANGED <<scaffoldVars, concVars, schemaVars, wire>>

\* main(): the dry-run branch, which only logs
VDryRun ==
    /\ script = "validate_and_save"
    /\ pc = "decide"
    /\ ~BlockedByErrors
    /\ ~HeldByWarnings
    /\ options.dry_run
    /\ pc' = "summary"
    /\ UNCHANGED <<script, options, input, schemaFile, schemasDir, data, outcome, responses,
                   files, clock, manifest, manifestWrites, manifests, exit>>
    /\ UNCHANGED <<batchVars, limiterVars, loggerVars>>
    /\ UNCHANGED <<scaffoldVars, concVars, schemaVars, wire>>

\* main(): the success summary; main then returns
VSuccess ==
    /\ script = "validate_and_save"
    /\ pc = "summary"
    /\ WriteManifest(Summary("success", outcome.errors, outcome.warnings,
                             outcome.saved_file, outcome.duplicate_detected))
    /\ pc' = "exit_0"
    /\ UNCHANGED <<script, options, input, schemaFile, schemasDir, data, outcome, responses,
                   files, clock, exit>>
    /\ UNCHANGED <<batchVars, limiterVars, loggerVars>>
    /\ UNCHANGED <<scaffoldVars, concVars, schemaVars, wire>>

(***************************************************************************)
(* add_link.py: LinkProcessor and main.                                    *)
(***************************************************************************)
\* the sequences of 1..MaxBatch elements of S
Batches(S) == UNION {[1..n -> S] : n \in 1..MaxBatch}

\* the url column of the rows parse_rows() lets through
LinkUrls == {UrlA, UrlB}

NoError == [kind |-> "none", status |-> 0]

\* LinkProcessor._verify_url(): the result row
LinkResult(url, allowed, resps) ==
    LET last == resps[Len(resps)]
        answered == SelectSeq(resps, LAMBDA r : ~r.exc)
    IN  [url |-> url,
         status_code |-> IF answered = <<>> THEN <<>>
                         ELSE <<answered[Len(answered)].status>>,
         error |-> IF last.exc THEN [kind |-> "RequestException", status |-> 0]
                   ELSE IF last.status \in allowed THEN NoError
                   ELSE [kind |-> "HTTP", status |-> last.status],
         success |-> VerifyUrl(allowed, resps)]

\* a reader of verified_links.csv that finds no URL in it
NoExistingUrls(lines) == {}

\* _load_existing_urls(): the url column of verified_links.csv, whose first
\* line is the header
LoadExistingUrls(lines) ==
    IF lines = <<>> THEN {}
    ELSE {lines[i].url : i \in {j \in 2..Len(lines) : lines[j].url # <<>>}}

\* persist(): the fieldnames of the two csv.DictWriter objects
VerifiedFields ==
    {"url", "final_url", "status_code", "company_name", "source", "verified_at", "url_hash"}

RejectedFields == {"url", "error", "status_code", "attempted_at"}

\* DictWriter._dict_to_list(), extrasaction "raise": the row carries a key
\* that is not among the fieldnames.  (Of the nine keys of a result row the
\* model keeps url, status_code, error and success.)
HasExtras(row, fieldnames) == DOMAIN row \ fieldnames # {}

\* DictWriter.writerows() raises ValueError at the first such row
Raises(new, fieldnames) == \E i \in 1..Len(new) : HasExtras(new[i], fieldnames)

RECURSIVE WriteRows(_, _, _)
\* DictWriter.writerows(): the rows that reach the file before it raises
WriteRows(lines, new, fieldnames) ==
    IF new = <<>> \/ HasExtras(Head(new), fieldnames) THEN lines
    ELSE WriteRows(Append(lines, Head(new)), Tail(new), fieldnames)

\* persist(): one "if outcome.verified:" / "if outcome.rejected:" block: the
\* file is opened for appending, the header goes in when the file did not
\* exist, then writerows()
AppendRows(lines, new, fieldnames) ==
    IF new = <<>> THEN lines
    ELSE WriteRows(IF lines = <<>> THEN <<HeaderLine>> ELSE lines, new, fieldnames)

\* persist(): the two CSV files after it, and whether ValueError left it;
\* nothing is touched in a dry run, and the rejected block is not reached
\* when the verified block raises
Persist(dry_run, lines, out) ==
    IF dry_run THEN [files |-> lines, raised |-> FALSE]
    ELSE IF Raises(out.verified, VerifiedFields)
    THEN [files |-> [lines EXCEPT
                        !.verified = AppendRows(@, out.verified, VerifiedFields)],
          raised |-> TRUE]
    ELSE [files |-> [verified |-> AppendRows(lines.verified, out.verified, VerifiedFields),
                     rejected |-> AppendRows(lines.rejected, out.rejected, RejectedFields)],
          raised |-> Raises(out.rejected, RejectedFields)]

LStart ==
    /\ script = "add_link"
    /\ pc \in {"idle", "done"}
    /\ \E force \in BOOLEAN, dry_run \in BOOLEAN :
           options' = [force |-> force, dry_run |-> dry_run, output |-> FALSE]
    /\ input' = [kind |-> "empty", data |-> NoData]
    /\ schemaFile' = NoSchema
    /\ rows' = <<>>
    /\ idx' = 1
    /\ batch' = NoBatch
    /\ existing_urls' = {}
    /\ manifestWrites' = 0
    /\ exit' = "none"
    /\ manifest' = <<>>
    /\ wire' = <<>>
    /\ UNCHANGED <<manifests, schemasDir>>
    /\ pc' = "parse_input"
    /\ UNCHANGED <<script, linkFiles, downloads>>
    /\ UNCHANGED <<validatorVars, limiterVars, loggerVars>>
    /\ UNCHANGED <<scaffoldVars, concVars, schemaVars>>

BatchSummary(status, errors) ==
    [script |-> script, status |-> status, errors |-> errors, dry_run |-> options.dry_run,
     verified |-> Len(batch.verified), rejected |-> Len(batch.rejected),
     duplicates |-> batch.duplicates,
     successful |-> Len(SelectSeq(batch.results, LAMBDA r : r.success)),
     failed |-> Len(SelectSeq(batch.results, LAMBDA r : ~r.success))]

\* main(): sys.stdin.read() and parse_rows(); on ValueError the failed
\* summary is written and SystemExit(1) raised
LParseRows ==
    /\ script = "add_link"
    /\ pc = "parse_input"
    /\ \/ /\ \E kind \in {"empty", "unparseable"} :
                /\ input' = [kind |-> kind, data |-> NoData]
                /\ WriteManifest(BatchSummary("failed", <<Err("input", kind)>>))
          /\ pc' = "exit_1"
          /\ UNCHANGED rows
       \/ /\ input' = [kind |-> "rows", data |-> NoData]
          /\ rows' \in Batches(LinkUrls)
          /\ pc' = "init"
          /\ UNCHANGED <<manifest, manifestWrites, manifests>>
    /\ UNCHANGED <<script, options, schemaFile, schemasDir, exit, idx, batch, existing_urls,
                   linkFiles, downloads>>
    /\ UNCHANGED <<validatorVars, limiterVars, loggerVars>>
    /\ UNCHANGED <<scaffoldVars, concVars, schemaVars, wire>>

\* main(): LinkProcessor(paths, options, logger), whose load_schema_config
\* may raise, and the first lines of process()
LInit ==
    /\ script = "add_link"
    /\ pc = "init"
    /\ schemaFile' \in FoundSchemas(schemasDir)
    /\ schemasDir' = SchemasAfterLoad(schemasDir)
    /\ IF schemaFile' = NoSchema
       THEN pc' = "done" /\ exit' = "nonzero" /\ UNCHANGED existing_urls
       ELSE /\ pc' = "process"
            /\ existing_urls' = LoadExistingUrls(linkFiles.verified)
            /\ UNCHANGED exit
    /\ UNCHANGED <<script, options, input, manifest, manifestWrites, manifests, rows, idx, batch,
                   linkFiles, downloads>>
    /\ UNCHANGED <<validatorVars, limiterVars, loggerVars>>
    /\ UNCHANGED <<scaffoldVars, concVars, schemaVars, wire>>

\* process(): one turn of the loop over the rows
LProcessRow ==
    /\ script = "add_link"
    /\ pc = "process"
    /\ idx <= Len(rows)
    /\ idx' = idx + 1
    /\ LET url == Strip(rows[idx])
           known == url \in existing_urls
           noted == IF known THEN [batch EXCEPT !.duplicates = Append(@, url)] ELSE batch
       IN  IF url = <<>> \/ (known /\ ~options.force)
           THEN batch' = noted /\ UNCHANGED <<existing_urls, responses, wire>>
           ELSE \E first, second \in RequestOutcomes(Schema.status_forcelist) :
                  LET resps == Requests(Schema.method, AllowedStatus(Schema), first, second)
                      result == LinkResult(url, AllowedStatus(Schema), resps)
                  IN  /\ second = resps[Len(resps)]
                      /\ responses' = resps
                      /\ wire' = VerifyCalls(Schema.method, resps)
                      /\ IF result.success
                         THEN /\ batch' = [noted EXCEPT !.verified = Append(@, result)]
                              /\ existing_urls' = existing_urls \cup {url}
                         ELSE /\ batch' = [noted EXCEPT !.rejected = Append(@, result),
                                                        !.errors = Append(@, result.error)]
                              /\ UNCHANGED existing_urls
    /\ UNCHANGED <<common, rows, linkFiles, downloads>>
    /\ UNCHANGED <<data, outcome, files, clock, limiterVars, loggerVars>>
    /\ UNCHANGED <<scaffoldVars, concVars, schemaVars>>

\* main(): processor.persist(outcome); nothing catches its ValueError
LPersist ==
    /\ script = "add_link"
    /\ pc = "process"
    /\ idx > Len(rows)
    /\ linkFiles' = Persist(options.dry_run, linkFiles, batch).files
    /\ IF Persist(options.dry_run, linkFiles, batch).raised
       THEN pc' = "done" /\ exit' = "nonzero"
       ELSE pc' = "summary" /\ UNCHANGED exit
    /\ UNCHANGED <<script, options, input, schemaFile, schemasDir, manifest, manifestWrites, manifests>>
    /\ UNCHANGED <<rows, idx, batch, existing_urls, downloads>>
    /\ UNCHANGED <<validatorVars, limiterVars, loggerVars>>
    /\ UNCHANGED <<scaffoldVars, concVars, schemaVars, wire>>

\* main(): the status of the summary
LinkStatus ==
    IF batch.rejected # <<>> /\ ~options.force THEN "needs_attention"
    ELSE IF batch.verified # <<>> \/ options.force THEN "success"
    ELSE "partial"

\* main(): the summary is written; SystemExit(1) when nothing was verified
\* and force is off
LSummary ==
    /\ script = "add_link"
    /\ pc = "summary"
    /\ WriteManifest(BatchSummary(LinkStatus, batch.errors))
    /\ pc' = IF batch.verified = <<>> /\ ~options.force THEN "exit_1" ELSE "exit_0"
    /\ UNCHANGED <<script, options, input, schemaFile, schemasDir, exit>>
    /\ UNCHANGED <<batchVars, validatorVars, limiterVars, loggerVars>>
    /\ UNCHANGED <<scaffoldVars, concVars, schemaVars, wire>>

(***************************************************************************)
(* download_file.py: DownloadManager and main.                             *)
(***************************************************************************)
\* gather_urls() keeps the lines that start with "http"
DownloadUrls == {UrlA, UrlB}

\* _make_request(): the scraper's get() when cloudscraper could be built,
\* which does not go through the retrying session; else session.get()
MakeRequestOutcomes(scraper, status_forcelist) ==
    IF scraper THEN {Exc} \cup {Resp(c) : c \in Statuses}
    ELSE RequestOutcomes(status_forcelist)

\* the file names a content-disposition header of the model can carry;
\* <<>> stands for a response without the header, the only kind the servers
\* of the model send
Dispositions == {<<>>}

\* _filename_from_response(): the header's filename, else the name of the
\* URL's path (what follows "http:" in the URLs of the model)
FilenameFromResponse(url, disposition) ==
    IF disposition # <<>> THEN disposition ELSE SubSeq(url, 6, Len(url))

\* _resolve_output_path(): options.output, else downloads/<subdir>/<filename>
ResolveOutputPath(output, url, disposition) ==
    IF output THEN <<"o", "u", "t", "p", "u", "t">>
    ELSE <<"d", "o", "w", "n", "l", "o", "a", "d", "s", "/">>
            \o FilenameFromResponse(url, disposition)

\* a _download_single() that leaves a file it finds at the path as it is
KeptIfPresent(stored, path, url, complete) ==
    IF path \in DOMAIN stored THEN stored
    ELSE [name \in DOMAIN stored \cup {path} |->
             IF name = path THEN [url |-> url, complete |-> complete] ELSE stored[name]]

\* _download_single(): output_path.open("wb") truncates the file, then the
\* chunks are written: all of them, or some when iter_content() raises
Written(stored, path, url, complete) ==
    [name \in DOMAIN stored \cup {path} |->
        IF name = path THEN [url |-> url, complete |-> complete] ELSE stored[name]]

\* _download_single(): its calls, in order: one wait(), then _make_request()
DownloadCalls == <<WaitCall, RequestCall("GET")>>

DownloadResult(url, success, response, path, error) ==
    [url |-> url, success |-> success,
     status_code |-> IF response.exc THEN <<>> ELSE <<response.status>>,
     output_path |-> path, error |-> error]

DStart ==
    /\ script = "download_file"
    /\ pc \in {"idle", "done"}
    /\ Cardinality(DOMAIN downloads) <= MaxKept
    /\ \E force \in BOOLEAN, dry_run \in BOOLEAN, output \in BOOLEAN :
           options' = [force |-> force, dry_run |-> dry_run, output |-> output]
    /\ input' = [kind |-> "empty", data |-> NoData]
    /\ schemaFile' = NoSchema
    /\ rows' = <<>>
    /\ idx' = 1
    /\ batch' = NoBatch
    /\ manifestWrites' = 0
    /\ exit' = "none"
    /\ manifest' = <<>>
    /\ wire' = <<>>
    /\ UNCHANGED <<manifests, schemasDir>>
    /\ pc' = "parse_input"
    /\ UNCHANGED <<script, existing_urls, linkFiles, downloads>>
    /\ UNCHANGED <<validatorVars, limiterVars, loggerVars>>
    /\ UNCHANGED <<scaffoldVars, concVars, schemaVars>>

\* main(): gather_urls(args); on ValueError the failed summary is written
\* and SystemExit(1) raised
DGatherUrls ==
    /\ script = "download_file"
    /\ pc = "parse_input"
    /\ \/ /\ input' = [kind |-> "empty", data |-> NoData]
          /\ WriteManifest(BatchSummary("failed", <<Err("input", "empty")>>))
          /\ pc' = "exit_1"
          /\ UNCHANGED rows
       \/ /\ input' = [kind |-> "rows", data |-> NoData]
          /\ rows' \in Batches(DownloadUrls)
          /\ pc' = "init"
          /\ UNCHANGED <<manifest, manifestWrites, manifests>>
    /\ UNCHANGED <<script, options, schemaFile, schemasDir, exit, idx, batch, existing_urls,
                   linkFiles, downloads>>
    /\ UNCHANGED <<validatorVars, limiterVars, loggerVars>>
    /\ UNCHANGED <<scaffoldVars, concVars, schemaVars, wire>>

\* main(): DownloadManager(paths, options, logger): load_schema_config may
\* raise; _create_scraper() gives a scraper or None
DInit ==
    /\ script = "download_file"
    /\ pc = "init"
    /\ schemaFile' \in FoundSchemas(schemasDir)
    /\ schemasDir' = SchemasAfterLoad(schemasDir)
    /\ IF schemaFile' = NoSchema
       THEN pc' = "done" /\ exit' = "nonzero" /\ UNCHANGED batch
       ELSE /\ pc' = "process"
            /\ \E scraper \in BOOLEAN : batch' = [batch EXCEPT !.scraper = scraper]
            /\ UNCHANGED exit
    /\ UNCHANGED <<script, options, input, manifest, manifestWrites, manifests, rows, idx,
                   existing_urls, linkFiles, downloads>>
    /\ UNCHANGED <<validatorVars, limiterVars, loggerVars>>
    /\ UNCHANGED <<scaffoldVars, concVars, schemaVars, wire>>

\* download_all(): one turn of the loop, through _download_single()
DDownloadOne ==
    /\ script = "download_file"
    /\ pc = "process"
    /\ idx <= Len(rows)
    /\ idx' = idx + 1
    /\ wire' = DownloadCalls
    /\ LET url == Strip(rows[idx])
           add(result) == [batch EXCEPT
                !.results = Append(@, result),
                !.errors = IF result.success THEN @ ELSE Append(@, result.error)]
       IN  \E response \in MakeRequestOutcomes(batch.scraper, Schema.status_forcelist) :
             IF response.exc
             THEN /\ batch' = add(DownloadResult(url, FALSE, response, <<>>,
                                    [kind |-> "RequestException", status |-> 0]))
                  /\ UNCHANGED downloads
             ELSE IF response.status \notin AllowedStatus(Schema) /\ ~options.force
             THEN /\ batch' = add(DownloadResult(url, FALSE, response, <<>>,
                                    [kind |-> "HTTP", status |-> response.status]))
                  /\ UNCHANGED downloads
             ELSE \E disposition \in IF options.output THEN {<<>>} ELSE Dispositions :
                    LET path == ResolveOutputPath(options.output, url, disposition)
                    IN  IF options.dry_run
                        THEN /\ batch' = add(DownloadResult(url, TRUE, response, path, NoError))
                             /\ UNCHANGED downloads
                        ELSE \E complete \in BOOLEAN :
                               /\ downloads' = Written(downloads, path, url, complete)
                               /\ batch' = add(DownloadResult(url, complete, response, path,
                                    IF complete THEN NoError
                                    ELSE [kind |-> "RequestException", status |-> 0]))
    /\ UNCHANGED <<common, rows, existing_urls, linkFiles>>
    /\ UNCHANGED <<validatorVars, limiterVars, loggerVars>>
    /\ UNCHANGED <<scaffoldVars, concVars, schemaVars>>

\* main(): the status of the summary
DownloadStatus ==
    IF (\E i \in 1..Len(batch.results) : batch.results[i].success) \/ options.force
    THEN "success" ELSE "failed"

\* main(): the summary is written; SystemExit(1) when a download failed
\* and force is off
DSummary ==
    /\ script = "download_file"
    /\ pc = "process"
    /\ idx > Len(rows)
    /\ WriteManifest(BatchSummary(DownloadStatus, batch.errors))
    /\ pc' = IF (\E i \in 1..Len(batch.results) : ~batch.results[i].success)
                    /\ ~options.force
             THEN "exit_1" ELSE "exit_0"
    /\ UNCHANGED <<script, options, input, schemaFile, schemasDir, exit>>
    /\ UNCHANGED <<batchVars, validatorVars, limiterVars, loggerVars>>
    /\ UNCHANGED <<scaffoldVars, concVars, schemaVars, wire>>

(***************************************************************************)
(* utils.py: RateLimiter.  Time is counted in whole seconds and the        *)
(* ceilings of the model divide 60, so 60.0 / requests_per_minute is a     *)
(* whole number of seconds.  A clock reading and the return that follows   *)
(* it are one step.                                                        *)
(***************************************************************************)
\* __init__(): self._min_interval
MinInterval(requests_per_minute) ==
    IF requests_per_minute # 0 THEN 60 \div requests_per_minute ELSE 0

\* a wait() that never sleeps
NoSleep(lim, reading) == 0

\* wait(): the sleep it asks for, given the clock reading; 0 for none
SleepFor(lim, reading) ==
    LET elapsed == reading - lim.last_call[1]
    IN  IF elapsed < MinInterval(lim.requests_per_minute)
        THEN MinInterval(lim.requests_per_minute) - elapsed
        ELSE 0

\* time passes
Tick ==
    /\ script = "RateLimiter"
    /\ now < MaxTime
    /\ now' = now + 1
    /\ UNCHANGED <<common, validatorVars, batchVars, loggerVars, limiter, sleeping, calls>>
    /\ UNCHANGED <<scaffoldVars, concVars, schemaVars, wire>>

\* wait(): up to its return, or up to time.sleep()
Wait ==
    /\ script = "RateLimiter"
    /\ sleeping = <<>>
    /\ Len(calls) < MaxCalls
    /\ IF limiter.requests_per_minute = 0
       THEN /\ calls' = Append(calls, [began |-> now, returned |-> now])
            /\ UNCHANGED <<limiter, sleeping>>
       ELSE IF limiter.last_call = <<>>
       THEN /\ limiter' = [limiter EXCEPT !.last_call = <<now>>]
            /\ calls' = Append(calls, [began |-> now, returned |-> now])
            /\ UNCHANGED sleeping
       ELSE IF SleepFor(limiter, now) > 0
       THEN /\ sleeping' = <<now, now + SleepFor(limiter, now)>>
            /\ UNCHANGED <<limiter, calls>>
       ELSE /\ limiter' = [limiter EXCEPT !.last_call = <<now>>]
            /\ calls' = Append(calls, [began |-> now, returned |-> now])
            /\ UNCHANGED sleeping
    /\ UNCHANGED <<common, validatorVars, batchVars, loggerVars, now>>
    /\ UNCHANGED <<scaffoldVars, concVars, schemaVars, wire>>

\* wait(): time.sleep() is over (it may last longer than asked);
\* self._last_call = time.monotonic() and the return
WaitWake ==
    /\ script = "RateLimiter"
    /\ sleeping # <<>>
    /\ now >= sleeping[2]
    /\ limiter' = [limiter EXCEPT !.last_call = <<now>>]
    /\ calls' = Append(calls, [began |-> sleeping[1], returned |-> now])
    /\ sleeping' = <<>>
    /\ UNCHANGED <<common, validatorVars, batchVars, loggerVars, now>>
    /\ UNCHANGED <<scaffoldVars, concVars, schemaVars, wire>>

(***************************************************************************)
(* utils.py: StructuredLogger.                                             *)
(***************************************************************************)
\* the states the model logs
LogStates == {"START", "ERROR"}

\* log(): the badge of the printed line
Badge(state, level) == IF state \in {"OK", "ERROR", "WARN"} THEN state ELSE level

\* log(): event = self._build_event(...); self._events.append(event)
LogBuild ==
    /\ script = "StructuredLogger"
    /\ logStep = "idle"
    /\ Len(logger.events) < MaxEvents
    /\ \E state \in LogStates :
          logger' = [logger EXCEPT !.events = Append(@,
                        [timestamp |-> Len(logger.events) + 1, state |-> state,
                         level |-> IF state = "ERROR" THEN "ERROR" ELSE "INFO"])]
    /\ logStep' = "print"
    /\ UNCHANGED <<common, validatorVars, batchVars, limiterVars, console, logFiles>>
    /\ UNCHANGED <<scaffoldVars, concVars, schemaVars, wire>>

\* the event of the log() call under way
CurrentEvent == logger.events[Len(logger.events)]

\* log(): print(), with the state named the first time it is printed
LogPrint ==
    /\ script = "StructuredLogger"
    /\ logStep = "print"
    /\ console' = Append(console,
            [timestamp |-> CurrentEvent.timestamp,
             badge |-> Badge(CurrentEvent.state, CurrentEvent.level),
             header |-> CurrentEvent.state \notin logger.printed_states])
    /\ logger' = [logger EXCEPT !.printed_states = @ \cup {CurrentEvent.state}]
    /\ logStep' = "append_session"
    /\ UNCHANGED <<common, validatorVars, batchVars, limiterVars, logFiles>>
    /\ UNCHANGED <<scaffoldVars, concVars, schemaVars, wire>>

\* an append_json_line() that opens the file for writing, not for appending
WriteJsonLine(lines, payload) == <<payload>>

\* append_json_line(): path.open("a") and one line written
AppendJsonLine(lines, payload) == Append(lines, payload)

\* log(): append_json_line(self._session_file, event)
LogAppendSession ==
    /\ script = "StructuredLogger"
    /\ logStep = "append_session"
    /\ logFiles' = [logFiles EXCEPT !.session = AppendJsonLine(@, CurrentEvent)]
    /\ logStep' = "append_latest"
    /\ UNCHANGED <<common, validatorVars, batchVars, limiterVars, logger, console>>
    /\ UNCHANGED <<scaffoldVars, concVars, schemaVars, wire>>

\* log(): append_json_line(self._latest_file, event)
LogAppendLatest ==
    /\ script = "StructuredLogger"
    /\ logStep = "append_latest"
    /\ logFiles' = [logFiles EXCEPT !.latest = AppendJsonLine(@, CurrentEvent)]
    /\ logStep' = "idle"
    /\ UNCHANGED <<common, validatorVars, batchVars, limiterVars, logger, console>>
    /\ UNCHANGED <<scaffoldVars, concVars, schemaVars, wire>>

\* flush_summary(): the manifest is written over <script>_result.json
LogFlushSummary ==
    /\ script = "StructuredLogger"
    /\ logStep = "idle"
    /\ manifestWrites < MaxEvents
    /\ \E status \in {"success", "failed"} :
          WriteManifest([script |-> script, status |-> status])
    /\ UNCHANGED <<script, pc, options, input, schemaFile, schemasDir, exit>>
    /\ UNCHANGED <<validatorVars, batchVars, limiterVars, loggerVars>>
    /\ UNCHANGED <<scaffoldVars, concVars, schemaVars, wire>>

(***************************************************************************)
(* create_research.py: ResearchScaffold.                                   *)
(***************************************************************************)
\* SLUG_PATTERN: ^[a-z0-9][a-z0-9_-]*$
SlugStart ==
    {Lowered[i] : i \in 1..Len(Lowered)} \cup OtherLetters \cup {"i", "r", "s"} \cup Digits

SlugMatches(slug) ==
    /\ slug # <<>>
    /\ slug[1] \in SlugStart
    /\ \A i \in 2..Len(slug) : slug[i] \in SlugStart \cup {"_", "-"}

BROWSER_REMINDER ==
    <<"B", "r", "o", "w", "s", "e", "r", " ", "M", "C", "P", " ", "t",
      "o", "o", "l", " ", "(", "t", "h", "e", " ", "o", "n", "l", "y",
      " ", "t", "r", "u", "s", "t", "e", "d", " ", "s", "o", "u", "r",
      "c", "e", " ", "o", "f", " ", "c", "o", "n", "t", "e", "n", "t",
      ")">>

\* DEFAULT_AUDIT_TEMPLATE, which nothing in the model looks into
DEFAULT_AUDIT_TEMPLATE == <<"# Audit Trail">>

\* the requirements bodies the model gives ResearchScaffold: empty, blank,
\* plain text, text under a heading, and text that names the browser MCP
Bodies ==
    {<<>>,
     <<" ">>,
     <<"o", "k">>,
     <<"#", " ", "o", "k">>,
     <<"u", "s", "e", " ", "B", "r", "o", "w", "s", "e", "r", " ", "M",
       "C", "P">>}

Titles == {<<"T">>}

\* sub in s
Contains(s, sub) ==
    \E i \in 1..(Len(s) - Len(sub) + 1) : SubSeq(s, i, i + Len(sub) - 1) = sub

RECURSIVE Join(_)
\* "\n".join(lines)
Join(lines) ==
    IF lines = <<>> THEN <<>>
    ELSE IF Len(lines) = 1 THEN lines[1]
    ELSE lines[1] \o <<"\n">> \o Join(Tail(lines))

\* a _compose_requirements() that appends no reminder
NoReminder(lines) == lines

\* _compose_requirements(): the reminder goes in unless the text, in lower
\* case, holds "browser mcp"
WithReminder(lines) ==
    IF Contains(Lower(Join(lines)),
                <<"b", "r", "o", "w", "s", "e", "r", " ", "m", "c", "p">>)
    THEN lines
    ELSE lines \o <<<<>>,
                    <<">", " ", "R", "e", "m", "i", "n", "d", "e", "r", ":", " ",
                      "T", "h", "e", " ">> \o BROWSER_REMINDER \o <<".">>>>

\* _compose_requirements()
ComposeRequirements(title, requirements_body) ==
    LET body == Strip(requirements_body)
        headed == StripLeft(body) # <<>> /\ Head(StripLeft(body)) = "#"
        lines == WithReminder(IF headed THEN <<body>>
                              ELSE <<<<"#", " ">> \o title, <<>>, body>>)
        last == lines[Len(lines)]
        ended == IF last # <<>> /\ last[Len(last)] = "\n" THEN lines
                 ELSE [lines EXCEPT ![Len(lines)] = last \o <<"\n">>]
    IN  StripRight(Join(ended)) \o <<"\n">>

\* run(): directories, relative to the research root
Directories ==
    <<".", "data-models", "data-models/validated", "downloads", "logs",
      "links-and-sources", "links-and-sources/validated", "requirements-and-schemas",
      "requirements-and-schemas/requirements", "requirements-and-schemas/schemas">>

\* run(): "if self.options.include_audit and not audit_path.exists()"
WritesAudit(include_audit, tree) == include_audit /\ AuditPath \notin DOMAIN tree.files

\* a _validate() that lets a blank body through to the FileExistsError
BlankBodyPasses(slug, requirements_body, force, tree) ==
    IF ~SlugMatches(slug) THEN "ValueError"
    ELSE IF RequirementsPath \in DOMAIN tree.files THEN "FileExistsError"
    ELSE IF "." \in tree.dirs /\ ~force THEN "FileExistsError"
    ELSE "none"

\* _validate(): what it raises, "none" when it returns
Validate(slug, requirements_body, force, tree) ==
    IF ~SlugMatches(slug) THEN "ValueError"
    ELSE IF Strip(requirements_body) = <<>> THEN "ValueError"
    ELSE IF RequirementsPath \in DOMAIN tree.files THEN "FileExistsError"
    ELSE IF "." \in tree.dirs /\ ~force THEN "FileExistsError"
    ELSE "none"

\* run(): what leaves it before the directory list is built
Raised(opts, tree) ==
    IF ~opts.force /\ "." \in tree.dirs THEN "FileExistsError"
    ELSE Validate(opts.slug, opts.requirements_body, opts.force, tree)

\* run(): the tree after the directories are made and the files written;
\* StructuredLogger makes logs/<slug>
Scaffolded(opts, tree) ==
    LET audit == WritesAudit(opts.include_audit, tree)
        names == DOMAIN tree.files \cup {RequirementsPath}
                    \cup (IF audit THEN {AuditPath} ELSE {})
    IN  [dirs |-> tree.dirs \cup {Directories[i] : i \in 1..Len(Directories)}
                     \cup {"logs/<slug>"},
         files |-> [name \in names |->
                      IF name = RequirementsPath
                      THEN ComposeRequirements(opts.title, opts.requirements_body)
                      ELSE IF name = AuditPath /\ audit THEN DEFAULT_AUDIT_TEMPLATE
                      ELSE tree.files[name]]]

\* a ScaffoldOutcome built with its last two fields in each other's place
OutcomeSwapped(created_directories, created_files, dry_run, existed) ==
    [research_root |-> ".", created_directories |-> created_directories,
     created_files |-> created_files, dry_run |-> existed, existed |-> dry_run]

\* ScaffoldOutcome
ScaffoldOutcome(created_directories, created_files, dry_run, existed) ==
    [research_root |-> ".", created_directories |-> created_directories,
     created_files |-> created_files, dry_run |-> dry_run, existed |-> existed]

\* run(): the events of its two logger.log() calls
ScaffoldEvents ==
    <<[timestamp |-> 1, state |-> "OK", level |-> "INFO"],
      [timestamp |-> 2, state |-> "RESULT", level |-> "INFO"]>>

\* ScaffoldOptions(...) and ResearchScaffold(options)
SStart ==
    /\ script = "create_research"
    /\ pc \in {"idle", "returned", "raised"}
    /\ \E slug \in Slugs, title \in Titles, requirements_body \in Bodies,
          dry_run \in BOOLEAN, force \in BOOLEAN, include_audit \in BOOLEAN :
           options' = [slug |-> slug, title |-> title,
                       requirements_body |-> requirements_body, dry_run |-> dry_run,
                       force |-> force, include_audit |-> include_audit]
    /\ returned' = NoReturn
    /\ manifest' = <<>>
    /\ manifestWrites' = 0
    /\ pc' = "run"
    /\ UNCHANGED <<script, input, schemaFile, schemasDir, manifests, exit, research>>
    /\ UNCHANGED <<validatorVars, batchVars, limiterVars, loggerVars, concVars>>
    /\ UNCHANGED <<schemaVars, wire>>

\* ResearchScaffold.run()
SRun ==
    /\ script = "create_research"
    /\ pc = "run"
    /\ LET tree == research[options.slug]
           existed == "." \in tree.dirs
           exc == Raised(options, tree)
           missing == SelectSeq(Directories, LAMBDA d : d \notin tree.dirs)
           created_files == {"initial_requirements"}
                               \cup (IF WritesAudit(options.include_audit, tree)
                                     THEN {"audit_trail"} ELSE {})
       IN  IF exc # "none"
           THEN /\ returned' = [exc |-> exc, outcome |-> <<>>]
                /\ pc' = "raised"
                /\ UNCHANGED <<research, manifest, manifestWrites, manifests, loggerVars>>
           ELSE IF options.dry_run
           THEN /\ returned' = [exc |-> "none", outcome |->
                                   <<ScaffoldOutcome(Directories, {}, TRUE, existed)>>]
                /\ pc' = "returned"
                /\ UNCHANGED <<research, manifest, manifestWrites, manifests, loggerVars>>
           ELSE /\ research' = [research EXCEPT ![options.slug] = Scaffolded(options, tree)]
                /\ logFiles' = [session |-> logFiles.session \o ScaffoldEvents,
                                latest |-> logFiles.latest \o ScaffoldEvents]
                /\ console' = console \o
                      [i \in 1..2 |-> [timestamp |-> ScaffoldEvents[i].timestamp,
                                       badge |-> Badge(ScaffoldEvents[i].state,
                                                       ScaffoldEvents[i].level),
                                       header |-> TRUE]]
                /\ WriteManifest([script |-> script, status |-> "success",
                                  dry_run |-> FALSE, created_directories |-> missing,
                                  created_files |-> created_files])
                /\ returned' = [exc |-> "none", outcome |->
                                   <<ScaffoldOutcome(missing, created_files, FALSE, existed)>>]
                /\ pc' = "returned"
                /\ UNCHANGED <<logger, logStep>>
    /\ UNCHANGED <<script, options, input, schemaFile, schemasDir, exit>>
    /\ UNCHANGED <<validatorVars, batchVars, limiterVars, concVars>>
    /\ UNCHANGED <<schemaVars, wire>>

(***************************************************************************)
(* propose_schema.py: SchemaValidator and main.  A JSON value is a record: *)
(* k is its Python type and v what it holds; an object holds its members   *)
(* as a sequence of <<key, value>> pairs, in the order of the text.        *)
(***************************************************************************)
JNull == [k |-> "null", v |-> <<>>]

JStr(s) == [k |-> "str", v |-> s]

JBool(b) == [k |-> "bool", v |-> b]

JList(l) == [k |-> "list", v |-> l]

JDict(pairs) == [k |-> "dict", v |-> pairs]

\* key in mapping
JHas(mapping, key) == \E i \in 1..Len(mapping.v) : mapping.v[i][1] = key

\* mapping.get(key)
JGet(mapping, key) ==
    IF JHas(mapping, key)
    THEN mapping.v[CHOOSE i \in 1..Len(mapping.v) : mapping.v[i][1] = key][2]
    ELSE JNull

ALLOWED_PRIMITIVE_TYPES == {"string", "number", "integer", "boolean", "array", "object"}

FORMAT_ALLOWED_FOR_TYPE == [fmt \in {"uri", "date", "date-time", "email"} |-> {"string"}]

\* re.match(r"^[a-z][a-z0-9_]*$", field_name)
SnakeCase(field_name) ==
    /\ field_name # <<>>
    /\ field_name[1] \in SlugStart \ Digits
    /\ \A i \in 2..Len(field_name) : field_name[i] \in SlugStart \cup {"_"}

\* _require()
Require(schema, key, expected_type) ==
    IF JGet(schema, key).k = "null" THEN <<Err("missing_property", key)>>
    ELSE IF JGet(schema, key).k # expected_type THEN <<Err("property_type", key)>>
    ELSE <<>>

\* _validate_properties(): the errors one property adds
DefinitionErrors(field_name, definition) ==
    (IF ~SnakeCase(field_name) THEN <<Err("snake_case", field_name)>> ELSE <<>>)
    \o IF definition.k # "dict" THEN <<Err("definition", field_name)>>
       ELSE LET field_type == JGet(definition, "type")
                fmt == JGet(definition, "format")
                enum_values == JGet(definition, "enum")
                typed(T) == field_type.k = "str" /\ field_type.v \in T
            IN  (IF ~typed(ALLOWED_PRIMITIVE_TYPES)
                 THEN <<Err("unsupported_type", field_name)>> ELSE <<>>)
             \o (IF typed({"array"}) /\ ~JHas(definition, "items")
                 THEN <<Err("array_items", field_name)>> ELSE <<>>)
             \o (IF /\ fmt.k = "str"
                    /\ fmt.v \in DOMAIN FORMAT_ALLOWED_FOR_TYPE
                    /\ ~typed(FORMAT_ALLOWED_FOR_TYPE[fmt.v])
                 THEN <<Err("format", field_name)>> ELSE <<>>)
             \o (IF enum_values.k = "null" THEN <<>>
                 ELSE IF enum_values.k # "list" THEN <<Err("enum_array", field_name)>>
                 ELSE IF Cardinality({enum_values.v[i] : i \in 1..Len(enum_values.v)})
                            # Len(enum_values.v)
                 THEN <<Err("enum_duplicate", field_name)>> ELSE <<>>)

\* _validate_properties(): the warnings one property adds
DefinitionWarnings(field_name, definition) ==
    IF definition.k # "dict" THEN <<>>
    ELSE LET fmt == JGet(definition, "format")
             description == JGet(definition, "description")
         IN  (IF fmt.k = "str" /\ fmt.v \notin DOMAIN FORMAT_ALLOWED_FOR_TYPE
              THEN <<Err("format_non_standard", field_name)>> ELSE <<>>)
          \o (IF description.k = "str" /\ Len(description.v) > 512
              THEN <<Err("description_long", field_name)>> ELSE <<>>)

RECURSIVE PropertyErrors(_)
PropertyErrors(pairs) ==
    IF pairs = <<>> THEN <<>>
    ELSE DefinitionErrors(Head(pairs)[1], Head(pairs)[2]) \o PropertyErrors(Tail(pairs))

RECURSIVE PropertyWarnings(_)
PropertyWarnings(pairs) ==
    IF pairs = <<>> THEN <<>>
    ELSE DefinitionWarnings(Head(pairs)[1], Head(pairs)[2]) \o PropertyWarnings(Tail(pairs))

\* "item not in properties", for properties that is a dict
PropertyNames(properties) == {properties.v[i][1] : i \in 1..Len(properties.v)}

RECURSIVE ValidateRequired(_, _, _)
\* _validate_required(); seen is the set it builds
ValidateRequired(required, properties, seen) ==
    IF required = <<>> THEN <<>>
    ELSE LET item == Head(required)
         IN  IF item.k # "str"
             THEN <<Err("required_type", "")>>
                     \o ValidateRequired(Tail(required), properties, seen)
             ELSE IF item.v \in seen
             THEN <<Err("required_duplicate", item.v)>>
                     \o ValidateRequired(Tail(required), properties, seen)
             ELSE (IF properties.k = "dict" /\ item.v \notin PropertyNames(properties)
                   THEN <<Err("required_missing", item.v)>> ELSE <<>>)
                     \o ValidateRequired(Tail(required), properties, seen \cup {item.v})

\* "not isinstance(x, type) or not x"
EmptyOrNot(x, type) == x.k # type \/ x.v = <<>>

\* SchemaValidator.validate()
ValidateSchema(schema) ==
    IF schema.k # "dict"
    THEN [errors |-> <<Err("not_object", "")>>, warnings |-> <<>>]
    ELSE LET properties == JGet(schema, "properties")
             required == JGet(schema, "required")
         IN  [errors |->
                 Require(schema, "title", "str") \o Require(schema, "type", "str")
                 \o (IF JGet(schema, "type") # JStr("object")
                     THEN <<Err("root_type", "")>> ELSE <<>>)
                 \o (IF EmptyOrNot(properties, "dict") THEN <<Err("properties", "")>>
                     ELSE PropertyErrors(properties.v))
                 \o (IF EmptyOrNot(required, "list") THEN <<Err("required", "")>>
                     ELSE ValidateRequired(required.v, properties, {})),
              warnings |->
                 (IF EmptyOrNot(properties, "dict") THEN <<>>
                  ELSE PropertyWarnings(properties.v))
                 \o (IF ~JHas(schema, "additionalProperties")
                     THEN <<Err("additional_properties", "")>> ELSE <<>>)]

\* the members of the proposals of the model
Member(key, value) == <<key, value>>

Typed(type) == JDict(<<Member("type", JStr(type))>>)

\* a proposal: title, type, properties, required and, when closed,
\* additionalProperties
Proposal(title, type, properties, required, closed) ==
    JDict(<<Member("title", JStr(title)), Member("type", JStr(type)),
            Member("properties", JDict(properties)), Member("required", JList(required))>>
          \o (IF closed THEN <<Member("additionalProperties", JBool(FALSE))>> ELSE <<>>))

\* stdin, parsed: two proposals without fault, one that draws a warning
\* only, one with a wrong root type, one with faults in every property and
\* in required (and two warnings), and a JSON array
Proposals ==
    {Proposal("Vendor", "object", <<Member(<<"n">>, Typed("string"))>>,
              <<JStr(<<"n">>)>>, TRUE),
     Proposal("Vendor", "object",
              <<Member(<<"n">>, Typed("string")), Member(<<"u">>, Typed("integer"))>>,
              <<JStr(<<"n">>)>>, TRUE),
     Proposal("Vendor", "object", <<Member(<<"n">>, Typed("string"))>>,
              <<JStr(<<"n">>)>>, FALSE),
     Proposal("Vendor", "array", <<Member(<<"n">>, Typed("string"))>>,
              <<JStr(<<"n">>)>>, TRUE),
     Proposal("Vendor", "object",
              <<Member(<<"N">>, JStr("string")),
                Member(<<"a">>, Typed("array")),
                Member(<<"b">>, JDict(<<Member("type", JStr("integer")),
                                        Member("format", JStr("uri"))>>)),
                Member(<<"c">>, JDict(<<Member("type", JStr("str")),
                                        Member("format", JStr("phone")),
                                        Member("enum", JList(<<1, 1>>))>>)),
                Member(<<"p">>, JDict(<<Member("type", JStr("string")),
                                        Member("enum", JStr("x")),
                                        Member("description",
                                               JStr([i \in 1..513 |-> "x"]))>>))>>,
              <<JStr(<<"a">>), JStr(<<"a">>), JStr(<<"u">>), JNull>>, FALSE),
     JList(<<>>)}

\* --name
SchemaNames == {"vendor_profile", "link"}

\* --manifest: not given, or a path that is no file of the schemas directory
ManifestPaths == {<<>>, <<"manifest.json">>}

\* propose_schema.write_manifest(): flush_summary(), then the file at
\* --manifest when one is named
WriteManifestAt(summary, manifest_path) ==
    /\ WriteManifest(summary)
    /\ manifestFile' = IF manifest_path # <<>> THEN <<Payload(summary)>> ELSE manifestFile

\* a main() in which --force overrides the errors as well
ForceOverridesErrors(res, force, dry_run, exists) ==
    IF res.errors # <<>> /\ ~force THEN "rejected"
    ELSE IF res.warnings # <<>> /\ ~force THEN "needs_attention"
    ELSE IF exists /\ ~force THEN "schema_exists"
    ELSE IF dry_run THEN "dry_run"
    ELSE "write"

\* main(): the branch taken once validate() has returned
Verdict(res, force, dry_run, exists) ==
    IF res.errors # <<>> THEN "rejected"
    ELSE IF res.warnings # <<>> /\ ~force THEN "needs_attention"
    ELSE IF exists /\ ~force THEN "schema_exists"
    ELSE IF dry_run THEN "dry_run"
    ELSE "write"

\* main(): output_path.open("w") and json.dump(result.schema)
WriteSchema(stored, name, schema) ==
    [n \in DOMAIN stored \cup {name} |-> IF n = name THEN schema ELSE stored[n]]

\* main(): the summary of each branch
ProposeSummary(status, errors, warnings) ==
    [script |-> script, status |-> status, errors |-> errors, warnings |-> warnings,
     dry_run |-> options.dry_run]

\* main(): parse_args, SchemaOptions, ModulePaths, StructuredLogger
ProposeStart ==
    /\ script = "propose_schema"
    /\ pc \in {"idle", "returned", "raised"}
    /\ \E name \in SchemaNames, dry_run \in BOOLEAN, force \in BOOLEAN,
          manifest_path \in ManifestPaths :
           options' = [name |-> name, dry_run |-> dry_run, force |-> force,
                       manifest_path |-> manifest_path]
    /\ input' = [kind |-> "empty", data |-> NoData]
    /\ schemaResult' = NoResult
    /\ manifest' = <<>>
    /\ manifestWrites' = 0
    /\ pc' = "read"
    /\ UNCHANGED <<script, schemaFile, schemasDir, manifests, exit, schemaStore, manifestFile>>
    /\ UNCHANGED <<validatorVars, batchVars, limiterVars, loggerVars, scaffoldVars,
                   concVars, wire>>

\* main(): sys.stdin.read().strip() and json.loads(raw); empty or invalid
\* text ends the run through the failed manifest and SystemExit(1)
ProposeRead ==
    /\ script = "propose_schema"
    /\ pc = "read"
    /\ \/ /\ \E kind \in {"empty", "unparseable"} :
                /\ input' = [kind |-> kind, data |-> NoData]
                /\ WriteManifestAt(ProposeSummary("failed", <<Err("input", kind)>>, <<>>),
                                   options.manifest_path)
          /\ pc' = "raised"
       \/ /\ \E proposed \in Proposals : input' = [kind |-> "schema", data |-> proposed]
          /\ pc' = "validate"
          /\ UNCHANGED <<manifest, manifestWrites, manifests, manifestFile>>
    /\ UNCHANGED <<script, options, schemaFile, schemasDir, exit, schemaStore, schemaResult>>
    /\ UNCHANGED <<validatorVars, batchVars, limiterVars, loggerVars, scaffoldVars,
                   concVars, wire>>

\* main(): result = validator.validate(proposed)
ProposeValidate ==
    /\ script = "propose_schema"
    /\ pc = "validate"
    /\ schemaResult' = ValidateSchema(input.data)
    /\ pc' = "decide"
    /\ UNCHANGED <<script, options, input, schemaFile, schemasDir, manifest, manifestWrites,
                   manifests, exit, schemaStore, manifestFile>>
    /\ UNCHANGED <<validatorVars, batchVars, limiterVars, loggerVars, scaffoldVars,
                   concVars, wire>>

\* main(): from "if result.errors:" to its end: the schema is rejected, held
\* back for its warnings, refused because the file exists, or, past
\* paths.schemas(), checked only (dry run) or written
ProposeDecide ==
    /\ script = "propose_schema"
    /\ pc = "decide"
    /\ LET verdict == Verdict(schemaResult, options.force, options.dry_run,
                              options.name \in DOMAIN schemaStore)
           status == CASE verdict = "rejected" -> "failed"
                       [] verdict = "needs_attention" -> "needs_attention"
                       [] verdict = "schema_exists" -> "failed"
                       [] OTHER -> "success"
           errors == IF verdict = "schema_exists" THEN <<Err("schema_exists", "")>>
                     ELSE schemaResult.errors
       IN  /\ schemasDir' = IF verdict \in {"rejected", "needs_attention"} THEN schemasDir
                            ELSE Mkdir(schemasDir, "propose_schema")
           /\ schemaStore' = IF verdict = "write"
                             THEN WriteSchema(schemaStore, options.name, input.data)
                             ELSE schemaStore
           /\ WriteManifestAt(ProposeSummary(status, errors, schemaResult.warnings),
                              options.manifest_path)
           /\ pc' = IF status = "success" THEN "returned" ELSE "raised"
    /\ UNCHANGED <<script, options, input, schemaFile, exit, schemaResult>>
    /\ UNCHANGED <<validatorVars, batchVars, limiterVars, loggerVars, scaffoldVars,
                   concVars, wire>>

\* a run that ends with status 0 where the code raises SystemExit(1)
ExitOneAsZero ==
    /\ pc = "exit_1"
    /\ pc' = "done"
    /\ exit' = "zero"
    /\ UNCHANGED <<script, options, input, schemaFile, schemasDir, data, outcome, responses,
                   files, clock, manifest, manifestWrites, manifests>>
    /\ UNCHANGED <<batchVars, limiterVars, loggerVars>>
    /\ UNCHANGED <<scaffoldVars, concVars, schemaVars, wire>>

\* sys.exit(1) / raise SystemExit(1)
ExitNonZero ==
    /\ pc = "exit_1"
    /\ pc' = "done"
    /\ exit' = "nonzero"
    /\ UNCHANGED <<script, options, input, schemaFile, schemasDir, data, outcome, responses,
                   files, clock, manifest, manifestWrites, manifests>>
    /\ UNCHANGED <<batchVars, limiterVars, loggerVars>>
    /\ UNCHANGED <<scaffoldVars, concVars, schemaVars, wire>>

\* main() returns
ExitZero ==
    /\ pc = "exit_0"
    /\ pc' = "done"
    /\ exit' = "zero"
    /\ UNCHANGED <<script, options, input, schemaFile, schemasDir, data, outcome, responses,
                   files, clock, manifest, manifestWrites, manifests>>
    /\ UNCHANGED <<batchVars, limiterVars, loggerVars>>
    /\ UNCHANGED <<scaffoldVars, concVars, schemaVars, wire>>

Next ==
    \/ VStart
    \/ VParseInput
    \/ VInit
    \/ VFieldChecks
    \/ VVerifyUrl
    \/ VDuplicateCheck
    \/ VFailed
    \/ VNeedsAttention
    \/ VSave
    \/ VDryRun
    \/ VSuccess
    \/ LStart
    \/ LParseRows
    \/ LInit
    \/ LProcessRow
    \/ LPersist
    \/ LSummary
    \/ DStart
    \/ DGatherUrls
    \/ DInit
    \/ DDownloadOne
    \/ DSummary
    \/ Tick
    \/ Wait
    \/ WaitWake
    \/ LogBuild
    \/ LogPrint
    \/ LogAppendSession
    \/ LogAppendLatest
    \/ LogFlushSummary
    \/ SStart
    \/ SRun
    \/ ProposeStart
    \/ ProposeRead
    \/ ProposeValidate
    \/ ProposeDecide
    \/ ExitNonZero
    \/ ExitZero

Spec == Init /\ [][Next]_vars

(***************************************************************************)
(* validate_and_save.py: two invocations at once against the same          *)
(* subdirectory.  Each process goes through main(): validate(), whose       *)
(* _is_duplicate() scans the directory, then save(), which looks for a free *)
(* file name and then opens the file for writing.  Nothing locks the        *)
(* directory, so the steps of the two processes interleave freely.  Each    *)
(* process is one invocation.                                               *)
(***************************************************************************)
Procs == {1, 2}

\* a process before its run
IdleProc ==
    [pc |-> "idle", force |-> FALSE, data |-> NoData, duplicate |-> FALSE,
     seen |-> NoFiles, target |-> <<>>]

ConcInit ==
    /\ script = "validate_and_save"
    /\ pc = "idle"
    /\ options = [force |-> FALSE, dry_run |-> FALSE, output |-> FALSE]
    /\ input = [kind |-> "empty", data |-> NoData]
    /\ schemaFile \in SchemaFiles \ {NoSchema}
    /\ schemasDir = <<"setup">>
    /\ manifest = <<>>
    /\ manifestWrites = 0
    /\ manifests = NoFiles
    /\ exit = "none"
    /\ data = NoData
    /\ outcome = NoOutcome
    /\ responses = <<>>
    /\ files = NoFiles
    /\ clock = 0
    /\ rows = <<>>
    /\ idx = 1
    /\ batch = NoBatch
    /\ existing_urls = {}
    /\ linkFiles = [verified |-> <<>>, rejected |-> <<>>]
    /\ downloads = NoFiles
    /\ limiter = [requests_per_minute |-> 0, last_call |-> <<>>]
    /\ now = 0
    /\ sleeping = <<>>
    /\ calls = <<>>
    /\ logger = [events |-> <<>>, printed_states |-> {}]
    /\ logStep = "idle"
    /\ console = <<>>
    /\ logFiles = [session |-> <<>>, latest |-> <<>>]
    /\ research = [slug \in Slugs |-> NoTree]
    /\ returned = NoReturn
    /\ procs = [p \in Procs |-> IdleProc]
    /\ schemaStore = NoFiles
    /\ schemaResult = NoResult
    /\ manifestFile = <<>>
    /\ wire = <<>>

\* what no step of the two processes touches
concFrame ==
    <<common, data, outcome, responses, batchVars, limiterVars, loggerVars, scaffoldVars,
      schemaVars, wire>>

\* main(): parse_args and parse_input(): the process holds its record
PStart(p) ==
    /\ procs[p].pc = "idle"
    /\ \E force \in BOOLEAN, record \in Records :
          procs' = [procs EXCEPT ![p] =
                      [IdleProc EXCEPT !.pc = "validate", !.force = force, !.data = record]]
    /\ UNCHANGED <<files, clock, concFrame>>

\* main(): validator.validate(data), whose _is_duplicate() scans the
\* directory as it is now, and the two "and not options.force" exits
PValidate(p) ==
    /\ procs[p].pc = "validate"
    /\ \E first, second \in RequestOutcomes(SchemaForcelist(Schema)) :
          LET record == procs[p].data
              resps == Requests(Schema.method, AllowedStatus(Schema), first, second)
              duplicate == IsDuplicate(record, DuplicateKeys(Schema), files)
              errors == \/ RequiredErrors(record, Schema.required) # <<>>
                        \/ FieldErrors(record, Schema.fields) # <<>>
                        \/ HasHttpUrl(record) /\ ~VerifyUrl(AllowedStatus(Schema), resps)
                        \/ duplicate
              warnings == FieldWarnings(record, Schema.fields) # <<>>
          IN  /\ second = resps[Len(resps)]
              /\ procs' = [procs EXCEPT
                    ![p].duplicate = duplicate,
                    ![p].seen = files,
                    ![p].pc = IF (errors \/ warnings) /\ ~procs[p].force
                              THEN "done" ELSE "save"]
    /\ UNCHANGED <<files, clock, concFrame>>

\* save(): the record is stamped, then the exists() tests pick the file name
PChooseFile(p) ==
    /\ procs[p].pc = "save"
    /\ clock' = clock + 1
    /\ procs' = [procs EXCEPT
          ![p].target = <<ModelFile(procs[p].data, files)>>,
          ![p].data = Stamped(procs[p].data, clock'),
          ![p].pc = "write"]
    /\ UNCHANGED <<files, concFrame>>

\* save(): model_file.open("w") and json.dump(data)
PWrite(p) ==
    /\ procs[p].pc = "write"
    /\ files' = [name \in DOMAIN files \cup {procs[p].target[1]} |->
                    IF name = procs[p].target[1] THEN procs[p].data ELSE files[name]]
    /\ procs' = [procs EXCEPT ![p].pc = "done"]
    /\ UNCHANGED <<clock, concFrame>>

ConcNext == \E p \in Procs : PStart(p) \/ PValidate(p) \/ PChooseFile(p) \/ PWrite(p)

SpecConcurrent == ConcInit /\ [][ConcNext]_vars

(***************************************************************************)
(* Properties.                                                             *)
(***************************************************************************)
\* validate() has run its field checks in the current run
RanFieldChecks ==
    /\ script = "validate_and_save"
    /\ schemaFile # NoSchema
    /\ pc # "field_checks"

\* validate() has run its live URL check in the current run
RanUrlCheck == RanFieldChecks /\ pc # "verify_url"

\* the field is not in the record, or holds a string of whitespace
AbsentOrBlank(record, field) ==
    field \notin DOMAIN record \/ (record[field].k = "str" /\ IsBlank(record[field].s))

\* the required fields of the schema the submitted record lacks
MissingFields ==
    {Schema.required[i] : i \in {j \in 1..Len(Schema.required) :
                                    AbsentOrBlank(input.data, Schema.required[j])}}

\* how many times err is in errors
CountErrors(errors, err) == Cardinality({i \in 1..Len(errors) : errors[i] = err})

UrlError == Err("url_does_not_exist", "website_url")

\* saves made before the current run of validate_and_save.py
SavesBefore == clock - (IF outcome.saved_file # <<>> THEN 1 ELSE 0)

\* C1: Validator.save never overwrites: every step leaves each stored record
\* file as it was, and a step that changes the directory adds exactly one
\* file, named <slug>.json when that name was free, else <slug>_v<N>.json for
\* the first N >= 1 whose name was free.
SaveNeverOverwrites ==
    [][ /\ \A name \in DOMAIN files :
              name \in DOMAIN files' /\ files'[name] = files[name]
        /\ files' # files =>
              \E target \in DOMAIN files' \ DOMAIN files :
                 /\ DOMAIN files' = DOMAIN files \cup {target}
                 /\ \/ target = FileName(SlugOf(data), 0)
                    \/ \E n \in 1..(Cardinality(DOMAIN files) + 1) :
                          /\ target = FileName(SlugOf(data), n)
                          /\ \A m \in 0..(n - 1) :
                                FileName(SlugOf(data), m) \in DOMAIN files
      ]_vars

\* C1, its case: the same logical record (same name and URL, so the same
\* model_id) saved twice, in two files written at different times
SavedTwice ==
    \E a, b \in DOMAIN files :
        /\ a # b
        /\ files[a].model_id = files[b].model_id
        /\ files[a].date_saved # files[b].date_saved

\* C2 as stated: validation reports exactly one "Missing required field"
\* error for each required field that is absent or blank, and a run on a
\* record that lacks a required field saves no record file.
MissingFieldNeverSaved ==
    RanFieldChecks =>
        /\ \A f \in MissingFields : CountErrors(outcome.errors, Err("missing", f)) = 1
        /\ MissingFields # {} => outcome.saved_file = <<>>

\* C2, amended: validation reports exactly one "Missing required field"
\* error for each required field that is absent or blank and none for any
\* other field, and a run without --force on a record that lacks a required
\* field saves no record file.
MissingFieldNotSavedUnforced ==
    RanFieldChecks =>
        /\ \A i \in 1..Len(Schema.required) :
              CountErrors(outcome.errors, Err("missing", Schema.required[i]))
                 = IF Schema.required[i] \in MissingFields THEN 1 ELSE 0
        /\ (MissingFields # {} /\ ~options.force) => outcome.saved_file = <<>>

\* C2, its case: an unforced run on a record that lacks both required fields
\* has ended, non-zero, with nothing saved
MissingFieldsRejected ==
    /\ RanFieldChecks
    /\ pc = "done"
    /\ ~options.force
    /\ Cardinality(MissingFields) = 2
    /\ exit = "nonzero"
    /\ outcome.saved_file = <<>>

\* C3: for a record whose website_url is an HTTP(S) URL, when the status the
\* live check draws from the server is in the allowed set no URL error is
\* reported, and when no request of the check (the first, the GET fallback)
\* draws an allowed status the "URL does not exist" error is reported.
UrlCheckFollowsStatus ==
    (RanUrlCheck /\ HasHttpUrl(input.data)) =>
        /\ responses # <<>>
        /\ responses[Len(responses)].served \in AllowedStatus(Schema)
              => CountErrors(outcome.errors, UrlError) = 0
        /\ (\A i \in 1..Len(responses) : responses[i].served \notin AllowedStatus(Schema))
              => CountErrors(outcome.errors, UrlError) = 1

\* the duplicate check of the current run has just been made
RanDuplicateCheck == RanUrlCheck /\ pc = "decide"

\* both records hold a non-empty value under the key
BothHold(stored, record, key) == Truthy(Get(stored, key)) /\ Truthy(Get(record, key))

\* C4 as stated: a record is flagged as a duplicate exactly when some stored
\* record has the same name up to letter case or exactly the same URL.
DuplicateExactOnUrl ==
    RanDuplicateCheck =>
        (outcome.duplicate_detected <=>
            \E name \in DOMAIN files :
                \/ /\ "vendor_name" \in DuplicateKeys(Schema)
                   /\ BothHold(files[name], data, "vendor_name")
                   /\ Lower(files[name].vendor_name.s) = Lower(data.vendor_name.s)
                \/ /\ "website_url" \in DuplicateKeys(Schema)
                   /\ BothHold(files[name], data, "website_url")
                   /\ files[name].website_url.s = data.website_url.s)

\* C4, amended: a record is flagged as a duplicate exactly when, under some
\* duplicate key (the URL included), a stored record and the new record hold
\* non-empty values that are equal up to letter case.
DuplicateCaseInsensitive ==
    RanDuplicateCheck =>
        (outcome.duplicate_detected <=>
            \E name \in DOMAIN files : \E key \in DuplicateKeys(Schema) :
                /\ BothHold(files[name], data, key)
                /\ Lower(files[name][key].s) = Lower(data[key].s))

\* C4, its case: a record is flagged although no stored record holds exactly
\* its name or exactly its URL
FlaggedOnLetterCase ==
    /\ RanDuplicateCheck
    /\ outcome.duplicate_detected
    /\ \A name \in DOMAIN files : \A key \in {"vendor_name", "website_url"} :
          Get(files[name], key) # Get(data, key)

\* C5: while a dry run is under way no step changes a record file, a link
\* CSV file or a downloaded file, and the run does not end without its
\* manifest written.
DryRunTouchesNothing ==
    [][ (options.dry_run /\ exit = "none") =>
            /\ files' = files
            /\ linkFiles' = linkFiles
            /\ downloads' = downloads
            /\ exit' # "none" => manifest' # <<>>
      ]_vars

\* C6: a run has written its manifest by the time the process exits.
ManifestBeforeExit == exit # "none" => manifestWrites > 0

\* the input of the run was empty or malformed
BadInput == input.kind \in {"empty", "unparseable"}

MeetsRule(value, rule) ==
    IF value.k = "null" THEN rule.presence \notin {"required", "recommended"}
    ELSE /\ value.k = "str"
         /\ rule.type = "string" =>
               /\ \A m \in rule.min_length : Len(value.s) >= m
               /\ \A m \in rule.max_length : Len(value.s) <= m
         /\ rule.type = "enum" => value.s \in rule.values
         /\ rule.type = "url" => StartsWithHttp(value.s)

\* the record meets every rule of the schema
Satisfies(record, schema) ==
    /\ \A i \in 1..Len(schema.required) :
          /\ ~AbsentOrBlank(record, schema.required[i])
          /\ record[schema.required[i]].k # "null"
    /\ \A i \in 1..Len(schema.fields) :
          MeetsRule(Get(record, schema.fields[i].name), schema.fields[i])

\* a run of validate_and_save.py, not a dry run, has ended on a record that
\* meets every rule and whose live check drew an allowed status, with no
\* record in the subdirectory when the run began
EndToEndCase ==
    /\ script = "validate_and_save"
    /\ exit # "none"
    /\ input.kind = "record"
    /\ schemaFile # NoSchema
    /\ ~options.dry_run
    /\ Satisfies(input.data, Schema)
    /\ responses # <<>>
    /\ ~responses[Len(responses)].exc
    /\ responses[Len(responses)].status \in AllowedStatus(Schema)
    /\ SavesBefore = 0

\* C8: such a run ends with no error and no warning, a manifest of status
\* "success", and exactly one record file, which holds model_id, date_saved
\* and validated = true.
EndToEndSuccess ==
    EndToEndCase =>
        /\ outcome.errors = <<>>
        /\ outcome.warnings = <<>>
        /\ manifest # <<>>
        /\ manifest[1].status = "success"
        /\ Cardinality(DOMAIN files) = 1
        /\ \A name \in DOMAIN files :
              /\ {"model_id", "date_saved", "validated"} \subseteq DOMAIN files[name]
              /\ files[name].validated = [k |-> "bool", s |-> <<"T", "r", "u", "e">>]
              /\ \A key \in DOMAIN input.data : files[name][key] = input.data[key]

\* C8, its case: such a run has ended with status 0
EndToEndDone == EndToEndCase /\ exit = "zero" /\ outcome.saved_file # <<>>

\* C9: with a ceiling of r requests per minute the returns of two consecutive
\* wait() calls are at least 60/r seconds apart; the first wait() returns
\* without sleeping; with no ceiling every wait() returns without sleeping
\* and leaves the limiter as it was.
WaitSpacing ==
    /\ limiter.requests_per_minute # 0 =>
          \A i \in 1..(Len(calls) - 1) :
              limiter.requests_per_minute * (calls[i + 1].returned - calls[i].returned) >= 60
    /\ calls # <<>> => calls[1].returned = calls[1].began
    /\ limiter.requests_per_minute = 0 =>
          /\ limiter.last_call = <<>>
          /\ sleeping = <<>>
          /\ \A i \in 1..Len(calls) : calls[i].returned = calls[i].began

\* C9, its case: a wait() slept and returned after the one before it
WaitSlept ==
    \E i \in 2..Len(calls) :
        /\ calls[i].returned > calls[i].began
        /\ calls[i].began < calls[i - 1].returned + MinInterval(limiter.requests_per_minute)

\* C10: every event echoed to the console is already in the session log and
\* in the latest file.
PersistedBeforeEcho ==
    \A i \in 1..Len(console) :
        /\ \E j \in 1..Len(logFiles.session) :
              logFiles.session[j].timestamp = console[i].timestamp
        /\ \E j \in 1..Len(logFiles.latest) :
              logFiles.latest[j].timestamp = console[i].timestamp

\* a run of validate_and_save.py, not a dry run, has ended on a record whose
\* validation gave at least one warning and no error
WarningOnlyCase ==
    /\ script = "validate_and_save"
    /\ exit # "none"
    /\ input.kind = "record"
    /\ schemaFile # NoSchema
    /\ ~options.dry_run
    /\ outcome.errors = <<>>
    /\ outcome.warnings # <<>>

\* C11 as stated: a record whose validation gives at least one warning and no
\* error is accepted without --force: the run, not a dry run, saves it and
\* does not end as a failure.
WarningsNeverBlock ==
    (WarningOnlyCase /\ ~options.force) =>
        /\ outcome.saved_file # <<>>
        /\ manifest # <<>> /\ manifest[1].status = "success"
        /\ exit = "zero"

\* C11, amended: a record whose validation gives at least one warning and no
\* error is saved exactly when --force is given; without --force the run
\* writes a manifest of status "needs_attention", saves nothing and exits
\* non-zero.
WarningsBlockUnlessForced ==
    WarningOnlyCase =>
        /\ outcome.saved_file # <<>> <=> options.force
        /\ manifest # <<>>
        /\ options.force => manifest[1].status = "success" /\ exit = "zero"
        /\ ~options.force =>
              /\ manifest[1].status = "needs_attention"
              /\ manifest[1].saved_file = <<>>
              /\ exit = "nonzero"
              /\ Cardinality(DOMAIN files) = clock

\* C11, its case: an unforced run on a record with a warning and no error has
\* ended with the manifest "needs_attention" after an earlier run saved a
\* record, and the directory holds that one record only
WarningHeldBack ==
    /\ WarningOnlyCase
    /\ ~options.force
    /\ pc = "done"
    /\ manifest[1].status = "needs_attention"
    /\ clock = 1
    /\ Cardinality(DOMAIN files) = 1

\* a run of add_link.py or download_file.py has ended after its loop went
\* over a batch of URLs
BatchEnded ==
    /\ script \in {"add_link", "download_file"}
    /\ exit # "none"
    /\ input.kind = "rows"
    /\ schemaFile # NoSchema

\* the entries of the batch that record a URL that failed
FailureEntries ==
    IF script = "add_link" THEN batch.rejected
    ELSE SelectSeq(batch.results, LAMBDA r : ~r.success)

\* C12: a run over a batch of URLs ends with every URL handled (one entry for
\* each: verified, rejected, or a duplicate that was skipped; one result for
\* each download), each failure entry carrying its own error, and a batch
\* with a failed URL ends through its manifest, not through an uncaught
\* exception.
FailedUrlNeverFatal ==
    BatchEnded =>
        /\ idx = Len(rows) + 1
        /\ script = "add_link" =>
              Len(batch.verified) + Len(batch.rejected)
                 + (IF options.force THEN 0 ELSE Len(batch.duplicates)) = Len(rows)
        /\ script = "download_file" => Len(batch.results) = Len(rows)
        /\ \A i \in 1..Len(FailureEntries) : FailureEntries[i].error # NoError
        /\ Len(batch.errors) = Len(FailureEntries)
        /\ FailureEntries # <<>> => manifestWrites > 0

\* the lines of a CSV file that record the URL, below the header
HoldsRow(lines, url) == \E j \in 2..Len(lines) : lines[j].url = url

\* the header is the first line of the file and its only header line
HeaderOnce(lines) ==
    lines # <<>> => /\ lines[1] = HeaderLine
                    /\ \A j \in 2..Len(lines) : lines[j] # HeaderLine

\* C14: when a run of add_link.py that is not a dry run has ended, every URL
\* that went through verification is in exactly one of the verified and the
\* rejected collections, every verified row is a line of verified_links.csv
\* and every rejected row a line of rejected_links.csv, and each file holds
\* its header once, as its first line.
RowsReachCsv ==
    (BatchEnded /\ script = "add_link" /\ ~options.dry_run) =>
        /\ Len(batch.verified) + Len(batch.rejected)
              + (IF options.force THEN 0 ELSE Len(batch.duplicates)) = Len(rows)
        /\ \A i \in 1..Len(batch.verified) :
              /\ HoldsRow(linkFiles.verified, batch.verified[i].url)
              /\ \A k \in 1..Len(batch.rejected) : batch.rejected[k] # batch.verified[i]
        /\ \A i \in 1..Len(batch.rejected) :
              HoldsRow(linkFiles.rejected, batch.rejected[i].url)
        /\ HeaderOnce(linkFiles.verified)
        /\ HeaderOnce(linkFiles.rejected)

\* the URLs of the result rows
UrlsOf(results) == {results[i].url : i \in 1..Len(results)}

\* the URLs of the duplicates list
DuplicateUrls == {batch.duplicates[i] : i \in 1..Len(batch.duplicates)}

\* process() is about to handle, without --force, a row whose URL
\* verified_links.csv holds or an earlier row of the batch had verified
AtKnownUrl ==
    /\ script = "add_link"
    /\ pc = "process"
    /\ idx <= Len(rows)
    /\ ~options.force
    /\ \/ HoldsRow(linkFiles.verified, rows[idx])
       \/ rows[idx] \in UrlsOf(batch.verified)

\* no URL is in two rows of verified_links.csv, and no URL is verified twice
\* in a batch without --force
NoUrlTwice ==
    /\ \A i, j \in 2..Len(linkFiles.verified) :
          linkFiles.verified[i].url = linkFiles.verified[j].url => i = j
    /\ (script = "add_link" /\ ~options.force) =>
          \A i, j \in 1..Len(batch.verified) :
              batch.verified[i].url = batch.verified[j].url => i = j

\* C15: without --force, the step of process() on a URL that
\* verified_links.csv holds, or that an earlier row of the batch had
\* verified, adds the URL to the duplicates list and verifies nothing (no
\* request, no verified row, no rejected row); and at no time is a URL in two
\* rows of verified_links.csv or verified twice in such a batch.
LinksDeduplicated ==
    /\ []NoUrlTwice
    /\ [][ AtKnownUrl =>
              /\ batch' = [batch EXCEPT !.duplicates = Append(@, rows[idx])]
              /\ responses' = responses
              /\ idx' = idx + 1
         ]_vars

\* C15, its case: a run without --force has verified the URL of its first row
\* and recorded the second row, the same URL, as a duplicate
DuplicateSkipped ==
    /\ script = "add_link"
    /\ pc = "process"
    /\ ~options.force
    /\ idx = 3
    /\ rows[1] = rows[2]
    /\ UrlsOf(batch.verified) = {rows[1]}
    /\ batch.duplicates = <<rows[2]>>
    /\ Len(batch.verified) = 1

\* the step is a flush_summary() call
Flushes == manifestWrites' = manifestWrites + 1

\* C16 as stated: the flush_summary() of a run writes a manifest file that
\* was not there before and leaves the manifest files of earlier runs as they
\* were.
ManifestPerRun ==
    [][ (Flushes /\ manifestWrites = 0) =>
            /\ DOMAIN manifests' # DOMAIN manifests
            /\ \A path \in DOMAIN manifests :
                  path \in DOMAIN manifests' /\ manifests'[path] = manifests[path]
      ]_vars

\* C16, amended: the log directory never holds a manifest file other than
\* <script>_result.json, and after every flush_summary() that file holds the
\* payload just written, whatever an earlier run had left in it.
ManifestOverwritten ==
    /\ [](DOMAIN manifests \subseteq {<<script, "_result.json">>})
    /\ [][ Flushes =>
              /\ DOMAIN manifests' = {<<script, "_result.json">>}
              /\ manifests'[<<script, "_result.json">>] = Payload(manifest'[1])
         ]_vars

\* C16, its case: two runs of validate_and_save.py have each saved a record
\* and written a manifest, and the log directory holds one manifest file,
\* which names the record of the second run
ManifestOfLastRunOnly ==
    /\ script = "validate_and_save"
    /\ pc = "done"
    /\ clock = 2
    /\ outcome.saved_file # <<>>
    /\ files[outcome.saved_file[1]].date_saved # files[FileName(SlugOf(data), 0)].date_saved
    /\ Cardinality(DOMAIN manifests) = 1
    /\ \A path \in DOMAIN manifests : manifests[path].saved_file = outcome.saved_file

\* the step is the load_schema_config() call of a script
LoadsSchema == script \in Scripts /\ pc = "init" /\ pc' # "init"

\* the files of the research tree are what they were
SameFiles ==
    /\ files' = files
    /\ linkFiles' = linkFiles
    /\ downloads' = downloads
    /\ manifests' = manifests
    /\ logFiles' = logFiles

\* C17 as stated: load_schema_config, whether it returns a ruleset or raises
\* for want of a configuration file, leaves every file and every directory
\* as it was.
LoadOnlyReads == [][ LoadsSchema => SameFiles /\ schemasDir' = schemasDir ]_vars

\* C17, amended: load_schema_config leaves every file as it was and the
\* schemas directory in place: it makes the directory when it is absent (and
\* then finds no configuration file in it) and leaves it alone otherwise.
LoadMakesSchemasDir ==
    [][ LoadsSchema =>
            /\ SameFiles
            /\ schemasDir' # NoDir
            /\ schemasDir # NoDir => schemasDir' = schemasDir
            /\ schemasDir = NoDir => schemaFile' = NoSchema
            /\ schemaFile' = NoSchema => pc' = "done" /\ exit' = "nonzero"
      ]_vars

\* C17, its case: the first load of a fresh research tree has raised for want
\* of a configuration file, and the schemas directory is there
SchemasDirMade ==
    /\ script \in Scripts
    /\ pc = "done"
    /\ input.kind \in {"record", "rows"}
    /\ schemaFile = NoSchema
    /\ exit = "nonzero"
    /\ schemasDir = <<"load_schema_config">>
    /\ manifests = NoFiles

\* the step is a ResearchScaffold.run() call
RunsScaffold == script = "create_research" /\ pc = "run"

\* the research trees and the log directory are what they were
NothingWritten ==
    /\ research' = research
    /\ manifests' = manifests
    /\ manifestWrites' = manifestWrites
    /\ logFiles' = logFiles

\* C18: a ResearchScaffold.run() in dry-run mode leaves every directory and
\* every file as it was (no requirements, audit trail, log or manifest), and
\* when it returns, the outcome has dry_run = true, the planned directories,
\* the research root first, as created_directories, and no created file.
ScaffoldDryRun ==
    [][ (RunsScaffold /\ options.dry_run) =>
            /\ NothingWritten
            /\ returned'.exc = "none" =>
                  /\ returned'.outcome[1].dry_run
                  /\ returned'.outcome[1].created_directories = Directories
                  /\ returned'.outcome[1].created_directories[1]
                        = returned'.outcome[1].research_root
                  /\ returned'.outcome[1].created_files = {}
      ]_vars

\* C18, its case: a dry run on a slug with no directory has returned, and the
\* slug still has no directory
DryRunReturned ==
    /\ script = "create_research"
    /\ pc = "returned"
    /\ options.dry_run
    /\ returned.outcome # <<>>
    /\ ~returned.outcome[1].existed
    /\ research[options.slug] = NoTree

\* run() finds initial-requirements.md under the slug
RequirementsExist == RequirementsPath \in DOMAIN research[options.slug].files

\* no step changes an initial-requirements.md that exists
RequirementsKept ==
    \A slug \in Slugs :
        RequirementsPath \in DOMAIN research[slug].files =>
            /\ RequirementsPath \in DOMAIN research'[slug].files
            /\ research'[slug].files[RequirementsPath]
                  = research[slug].files[RequirementsPath]

\* C19 as stated: no step changes an initial-requirements.md that exists, and
\* a run() that finds the file writes nothing and raises FileExistsError.
RequirementsImmutable ==
    [][ /\ RequirementsKept
        /\ (RunsScaffold /\ RequirementsExist) =>
              NothingWritten /\ returned'.exc = "FileExistsError"
      ]_vars

\* C19, amended: no step changes an initial-requirements.md that exists, and
\* a run() that finds the file writes nothing and raises: ValueError when
\* force is set and the slug is malformed or the body blank, FileExistsError
\* otherwise.
RequirementsImmutableOrInvalid ==
    [][ /\ RequirementsKept
        /\ (RunsScaffold /\ RequirementsExist) =>
              /\ NothingWritten
              /\ returned'.exc =
                    IF options.force /\ (\/ ~SlugMatches(options.slug)
                                         \/ IsBlank(options.requirements_body))
                    THEN "ValueError" ELSE "FileExistsError"
      ]_vars

\* C19, its case: a forced run() with a blank body has raised ValueError on a
\* slug whose initial-requirements.md exists
BlankBodyOnExisting ==
    /\ script = "create_research"
    /\ pc = "raised"
    /\ RequirementsExist
    /\ options.force
    /\ IsBlank(options.requirements_body)
    /\ returned.exc = "ValueError"

\* a run() that was not a dry run has returned
ScaffoldDone ==
    /\ script = "create_research"
    /\ pc = "returned"
    /\ ~options.dry_run

BrowserMcp == <<"b", "r", "o", "w", "s", "e", "r", " ", "m", "c", "p">>

\* C20 as stated: after a run() that was not a dry run has returned,
\* initial-requirements.md and audit-trail.md both exist and the requirements
\* file holds BROWSER_REMINDER.
ScaffoldComplete ==
    ScaffoldDone =>
        /\ {RequirementsPath, AuditPath} \subseteq DOMAIN research[options.slug].files
        /\ Contains(research[options.slug].files[RequirementsPath], BROWSER_REMINDER)

\* C20, amended: after a run() that was not a dry run has returned,
\* initial-requirements.md exists and names the browser MCP: it holds
\* BROWSER_REMINDER exactly when neither the body nor the title heading put
\* before a body without one holds "browser mcp" in any letter case;
\* audit-trail.md exists exactly when include_audit is set or the file was
\* there already, and run() wrote it only in the first case.
ScaffoldCompleteUnlessSkipped ==
    ScaffoldDone =>
        LET tree == research[options.slug]
            body == Strip(options.requirements_body)
            named == \/ Contains(Lower(body), BrowserMcp)
                     \/ Head(body) # "#" /\ Contains(Lower(options.title), BrowserMcp)
            wrote == "audit_trail" \in returned.outcome[1].created_files
        IN  /\ SlugMatches(options.slug)
            /\ body # <<>>
            /\ RequirementsPath \in DOMAIN tree.files
            /\ Contains(tree.files[RequirementsPath], body)
            /\ Contains(Lower(tree.files[RequirementsPath]), BrowserMcp)
            /\ Contains(tree.files[RequirementsPath], BROWSER_REMINDER) <=> ~named
            /\ options.include_audit => AuditPath \in DOMAIN tree.files
            /\ wrote => options.include_audit
                           /\ tree.files[AuditPath] = DEFAULT_AUDIT_TEMPLATE
            /\ (AuditPath \in DOMAIN tree.files /\ ~wrote) =>
                  tree.files[AuditPath] # DEFAULT_AUDIT_TEMPLATE

\* C20, its case: a run() with include_audit off and a body that names the
\* browser MCP has returned: no audit-trail.md, no BROWSER_REMINDER
ScaffoldWithoutReminder ==
    /\ ScaffoldDone
    /\ ~options.include_audit
    /\ AuditPath \notin DOMAIN research[options.slug].files
    /\ RequirementsPath \in DOMAIN research[options.slug].files
    /\ ~Contains(research[options.slug].files[RequirementsPath], BROWSER_REMINDER)

\* the record the process submitted, without the stamps of save()
Submitted(p) ==
    [key \in DOMAIN procs[p].data \ {"model_id", "date_saved", "validated"} |->
        procs[p].data[key]]

\* the two records hold, under a duplicate key of the schema, non-empty values
\* that are equal up to letter case
ShareKey(a, b) ==
    \E key \in DuplicateKeys(Schema) :
        /\ BothHold(a, b, key)
        /\ Lower(a[key].s) = Lower(b[key].s)

\* C13: with two unlocked invocations, a process is flagged as a duplicate
\* exactly when the directory it scanned held a record sharing a duplicate
\* key with its own, whatever the other process wrote afterwards, and a
\* flagged process without --force writes nothing; so the only way past the
\* check for two processes holding the same new record is that each scans
\* before the other writes, and then both write it.
DuplicateCheckSeesScanOnly ==
    \A p \in Procs :
        procs[p].pc \in {"save", "write", "done"} =>
            /\ procs[p].duplicate <=>
                  \E name \in DOMAIN procs[p].seen :
                      ShareKey(procs[p].seen[name], Submitted(p))
            /\ (procs[p].duplicate /\ ~procs[p].force) => procs[p].target = <<>>
            /\ procs[p].pc = "done" /\ procs[p].target # <<>> =>
                  procs[p].target[1] \in DOMAIN files

\* C13, its case: two processes without --force held the same new record,
\* each scanned the directory before the other wrote, both passed the
\* duplicate check and both saved: two stored records share a duplicate key
TwoRecordsOneKey ==
    /\ \A p \in Procs :
          /\ procs[p].pc = "done"
          /\ ~procs[p].force
          /\ ~procs[p].duplicate
          /\ procs[p].seen = NoFiles
          /\ procs[p].target # <<>>
    /\ Submitted(1) = Submitted(2)
    /\ \E a, b \in DOMAIN files :
          /\ a # b
          /\ ShareKey(files[a], files[b])

\* the step is the part of propose_schema's main() that follows validate()
DecidesSchema == script = "propose_schema" /\ pc = "decide" /\ pc' # "decide"

\* the proposal has no error, no warning unless --force is given, the run is
\* no dry run, and no <name>.schema.json exists unless --force is given
MayWriteSchema ==
    /\ schemaResult.errors = <<>>
    /\ schemaResult.warnings = <<>> \/ options.force
    /\ ~options.dry_run
    /\ options.name \notin DOMAIN schemaStore \/ options.force

\* C21: propose_schema writes <name>.schema.json, with the proposed schema,
\* exactly in the runs whose proposal has no error, has no warning unless
\* --force is given, that are no dry run and find no file of that name unless
\* --force is given; every other step of every run leaves each schema file as
\* it was, and the write leaves the schema files of other names as they were.
SchemaWrittenOnlyWhenClean ==
    [][ /\ (DecidesSchema /\ MayWriteSchema) =>
              schemaStore' = WriteSchema(schemaStore, options.name, input.data)
        /\ ~(DecidesSchema /\ MayWriteSchema) => schemaStore' = schemaStore
      ]_vars

\* C21, its case: a run with --force on a proposal with errors has ended, and
\* the schema file of its name still holds the schema an earlier run wrote
ForcedErrorsLeftSchema ==
    /\ script = "propose_schema"
    /\ pc = "raised"
    /\ options.force /\ ~options.dry_run
    /\ schemaResult.errors # <<>>
    /\ options.name \in DOMAIN schemaStore
    /\ schemaStore[options.name] # input.data
    /\ ValidateSchema(schemaStore[options.name]) = NoResult

\* C22: every request of a live check or a download is immediately preceded
\* by a RateLimiter.wait() of its own: in the calls of _verify_url() and
\* _download_single(), each request comes right after a wait().
WaitBeforeEachRequest ==
    \A i \in 1..Len(wire) :
        wire[i].call = "request" => i > 1 /\ wire[i - 1].call = "wait"

\* the forcelist the schema of the run declares for its script
DeclaredForcelist ==
    IF script = "validate_and_save" THEN SchemaForcelist(Schema) ELSE Schema.status_forcelist

\* the step is a _verify_url() call: of validate(), for a record with an
\* HTTP(S) website_url, or of process(), for a row it did not skip
ChecksUrl ==
    \/ /\ script = "validate_and_save"
       /\ pc = "verify_url" /\ pc' = "duplicate_check"
       /\ HasHttpUrl(data)
    \/ /\ script = "add_link"
       /\ Len(batch'.verified) + Len(batch'.rejected)
             > Len(batch.verified) + Len(batch.rejected)

\* the request drew an answer of the server that the session retried until
\* its retries were used up
Retried(response) == response.exc /\ response.served # 0

RequestsOf(calls_made) == SelectSeq(calls_made, LAMBDA c : c.call = "request")

\* C24: one live check makes one request, or two; it makes two exactly when
\* the first request drew a response whose status is not allowed and the
\* configured method is not GET, and the second request is then a GET; so a
\* check configured with GET makes exactly one request, and a first response
\* with an allowed status (or a first request that raised) is followed by no
\* second request.
FallbackAtMostOnce ==
    [][ ChecksUrl =>
            LET made == RequestsOf(wire')
                first == responses'[1]
                refused == ~first.exc /\ first.status \notin AllowedStatus(Schema)
            IN  /\ Len(made) \in {1, 2}
                /\ Len(responses') = Len(made)
                /\ made[1].method = Schema.method
                /\ Len(made) = 2 <=> (refused /\ Schema.method # "GET")
                /\ Len(made) = 2 => made[2].method = "GET"
                /\ Schema.method = "GET" => Len(made) = 1
                /\ (~first.exc /\ first.status \in AllowedStatus(Schema)) => Len(made) = 1
      ]_vars

\* C24, its case: a HEAD request drew a status that is not allowed, the GET
\* fallback followed and drew an allowed one
FellBackToGet ==
    /\ script = "add_link"
    /\ Len(responses) = 2
    /\ Len(RequestsOf(wire)) = 2
    /\ wire[2].method = "HEAD" /\ wire[3].method = "GET"
    /\ responses[1].status \notin AllowedStatus(Schema)
    /\ responses[2].status \in AllowedStatus(Schema)
    /\ Len(batch.verified) = 1

\* validate() is under way: main has called it and it has not returned
Validating ==
    script = "validate_and_save" /\ pc \in {"field_checks", "verify_url", "duplicate_check"}

\* C25: no step of validate() changes a record file of the subdirectory; a
\* step that changes one is the save() main calls, once validate() has
\* returned, on an outcome without errors or under --force, and it writes
\* what save() writes.
ValidatorNeverPersists ==
    [][ /\ Validating => files' = files
        /\ files' # files =>
              /\ script = "validate_and_save"
              /\ pc = "decide"
              /\ outcome.errors = <<>> \/ options.force
              /\ files' = Save(data, files, clock')
              /\ outcome'.saved_file = <<ModelFile(data, files)>>
      ]_vars

\* C25, its case: validate() has returned an outcome with errors on a record
\* submitted with --force, an earlier record being stored, and save() has
\* then written the record
SavedAfterValidate ==
    /\ script = "validate_and_save"
    /\ pc = "summary"
    /\ options.force
    /\ outcome.errors # <<>>
    /\ outcome.saved_file # <<>>
    /\ Cardinality(DOMAIN files) = 2
    /\ files[outcome.saved_file[1]] = data

\* some stored record and the record under validation hold, under one of the
\* duplicate keys, non-empty values that are equal up to letter case
MatchesStored ==
    \E name \in DOMAIN files :
      \E key \in (IF Schema.duplicate_keys # {} THEN Schema.duplicate_keys
                  ELSE {"vendor_name", "website_url"}) :
        /\ BothHold(files[name], data, key)
        /\ Lower(Str(files[name][key])) = Lower(Str(data[key]))

DuplicateError == Err("duplicate", "")

\* C26: validate() sets duplicate_detected and appends the "Duplicate entry"
\* error, once, exactly when a stored record matches the new one on a
\* duplicate key, with --force as without it; the error is the last of the
\* outcome.
DuplicateAlwaysReported ==
    RanDuplicateCheck =>
        /\ outcome.duplicate_detected <=> MatchesStored
        /\ CountErrors(outcome.errors, DuplicateError) = IF MatchesStored THEN 1 ELSE 0
        /\ MatchesStored => outcome.errors[Len(outcome.errors)] = DuplicateError

\* C26, its case: a record submitted with --force, whose URL a stored record
\* holds and whose name no stored record holds, has been reported as a
\* duplicate
ReportedUnderForce ==
    /\ RanDuplicateCheck
    /\ options.force
    /\ outcome.duplicate_detected
    /\ outcome.errors[Len(outcome.errors)] = DuplicateError
    /\ \A name \in DOMAIN files :
          ~(/\ BothHold(files[name], data, "vendor_name")
            /\ Lower(Str(files[name].vendor_name)) = Lower(Str(data.vendor_name)))

\* errors is what earlier was, with zero or more errors after it
Extends(errors, earlier) ==
    Len(errors) >= Len(earlier) /\ SubSeq(errors, 1, Len(earlier)) = earlier

\* the errors the field checks report
IsFieldError(err) == err \notin {UrlError, DuplicateError}

\* C27: validate() goes through its field checks, then the live URL check,
\* then the duplicate check, each once and each whatever errors the outcome
\* already holds: the field checks leave field errors only; the URL check
\* follows them, makes its requests whenever website_url is an HTTP(S) URL
\* and appends the URL error exactly when the last of them drew no allowed
\* status; the duplicate check follows it and appends the duplicate error
\* exactly when a stored record matches; no step removes or reorders an error
\* reported before it.
LinearPipeline ==
    [][ (script = "validate_and_save" /\ Validating) =>
            /\ pc = "field_checks" =>
                  /\ pc' = "verify_url"
                  /\ \A i \in 1..Len(outcome'.errors) : IsFieldError(outcome'.errors[i])
            /\ pc = "verify_url" =>
                  /\ pc' = "duplicate_check"
                  /\ HasHttpUrl(data) =>
                        /\ responses' # <<>>
                        /\ LET last == responses'[Len(responses')]
                           IN  outcome'.errors =
                                  IF ~last.exc /\ last.status \in AllowedStatus(Schema)
                                  THEN outcome.errors
                                  ELSE Append(outcome.errors, UrlError)
                  /\ ~HasHttpUrl(data) => outcome' = outcome
            /\ pc = "duplicate_check" =>
                  /\ pc' = "decide"
                  /\ outcome'.errors =
                        IF MatchesStored THEN Append(outcome.errors, DuplicateError)
                        ELSE outcome.errors
            /\ Extends(outcome'.errors, outcome.errors)
            /\ data' = data /\ files' = files
      ]_vars

\* C27, its case: validate() has returned an outcome that holds a field
\* error, then the URL error, then the duplicate error
AllThreeReported ==
    /\ RanDuplicateCheck
    /\ Len(outcome.errors) >= 3
    /\ IsFieldError(outcome.errors[1])
    /\ outcome.errors[Len(outcome.errors) - 1] = UrlError
    /\ outcome.errors[Len(outcome.errors)] = DuplicateError

\* C28: the session log and the latest file only grow: every step, the
\* flush_summary() calls included, leaves the events already written where
\* they were; a log() call appends its event, and nothing else, to the
\* session log and then to the latest file; so between two log() calls both
\* files hold the events logged so far, one line each, in call order.  (A
\* flush_summary() changes neither file; the step of ResearchScaffold.run()
\* holds its two log() calls along with its flush_summary().)
LogAppendOnly ==
    /\ [](script = "StructuredLogger" /\ logStep = "idle" =>
              /\ logFiles.session = logger.events
              /\ logFiles.latest = logger.events)
    /\ [][ /\ Extends(logFiles'.session, logFiles.session)
           /\ Extends(logFiles'.latest, logFiles.latest)
           /\ logStep = "append_session" =>
                 /\ logFiles'.session = Append(logFiles.session, CurrentEvent)
                 /\ logFiles'.latest = logFiles.latest
           /\ logStep = "append_latest" =>
                 /\ logFiles'.latest = Append(logFiles.latest, CurrentEvent)
                 /\ logFiles'.session = logFiles.session
           /\ (Flushes /\ script # "create_research") => logFiles' = logFiles
         ]_vars

\* C28, its case: a logger has logged two events, with a flush_summary()
\* before the second, and both files hold the two, the first one first
TwoEventsKept ==
    /\ script = "StructuredLogger"
    /\ logStep = "idle"
    /\ manifestWrites > 0
    /\ Len(logFiles.session) = 2
    /\ Len(logFiles.latest) = 2
    /\ logFiles.session[1].timestamp < logFiles.session[2].timestamp
    /\ logFiles.latest = logFiles.session

\* the processes whose save() has written its file
Saved == {p \in Procs : procs[p].pc = "done" /\ procs[p].target # <<>>}

\* process p makes the step of save() that picks the file name
Chooses(p) == procs[p].pc = "save" /\ procs'[p].pc = "write"

\* process p makes the step of save() that writes the file
Writes(p) == procs[p].pc = "write" /\ procs'[p].pc = "done"

\* C29: every save() picks a file name that is free when it looks, and its
\* write, a later step, puts its record under that name whatever is there by
\* then; so two save() calls under way at once can pick the same name, and
\* the directory holds fewer files than saves were made exactly when two of
\* them wrote to one name, whose file then holds the record of one of them.
SameNameChosenTwice ==
    /\ [](/\ Cardinality(DOMAIN files) <= Cardinality(Saved)
          /\ Cardinality(DOMAIN files) < Cardinality(Saved) <=>
                \E p, q \in Saved : p # q /\ procs[p].target = procs[q].target
          /\ \A p \in Saved :
                /\ procs[p].target[1] \in DOMAIN files
                /\ \E q \in Saved :
                      /\ procs[q].target = procs[p].target
                      /\ files[procs[p].target[1]] = procs[q].data)
    /\ [][ \A p \in Procs :
              /\ Chooses(p) =>
                    /\ procs'[p].target[1] \notin DOMAIN files
                    /\ files' = files
              /\ Writes(p) =>
                    /\ DOMAIN files' = DOMAIN files \cup {procs[p].target[1]}
                    /\ files'[procs[p].target[1]] = procs[p].data
                    /\ \A name \in DOMAIN files \ {procs[p].target[1]} :
                          files'[name] = files[name]
         ]_vars

\* C29, its case: two processes have each saved a record of the same slug,
\* both under the same name, and the one file of the directory holds the
\* record of one of them, the other record being lost
OneFileForTwoSaves ==
    /\ Saved = Procs
    /\ procs[1].target = procs[2].target
    /\ SlugOf(procs[1].data) = SlugOf(procs[2].data)
    /\ procs[1].data # procs[2].data
    /\ clock = 2
    /\ Cardinality(DOMAIN files) = 1
    /\ \E p \in Procs : files[procs[p].target[1]] = procs[p].data

\* the path --output names
OutputPath == ResolveOutputPath(TRUE, <<>>, <<>>)

\* a run of download_file.py with --output, not a dry run, is in or past its
\* loop over the URLs
OutputBatch ==
    /\ script = "download_file"
    /\ schemaFile # NoSchema
    /\ pc \in {"process", "exit_0", "exit_1", "done"}
    /\ options.output /\ ~options.dry_run

\* the results of the batch that are successes, and those whose download
\* opened the output file
Successes == SelectSeq(batch.results, LAMBDA r : r.success)

Opened == SelectSeq(batch.results, LAMBDA r : r.output_path # <<>>)

\* C30 as stated: in a batch with --output that is not a dry run, once a URL
\* has succeeded the file at the output path holds the whole body of the last
\* URL that succeeded, and the manifest counts every success.
OutputHoldsLastSuccess ==
    OutputBatch =>
        /\ Successes # <<>> =>
              /\ OutputPath \in DOMAIN downloads
              /\ downloads[OutputPath] =
                    [url |-> Successes[Len(Successes)].url, complete |-> TRUE]
        /\ manifest # <<>> => manifest[1].successful = Len(Successes)

\* C30, amended: in a batch with --output that is not a dry run, every URL
\* whose response is accepted is written to the output path, over what the
\* file held, so the file holds what was received of the last such URL only:
\* its whole body when that download succeeded, a part of it when its stream
\* failed after the file was opened, whatever succeeded before; the manifest
\* counts every success; and every step that writes a download replaces the
\* whole content of the file at its path and touches no other file.
OutputHoldsLastOpened ==
    /\ [](OutputBatch =>
              /\ \A i \in 1..Len(Opened) : Opened[i].output_path = OutputPath
              /\ Opened # <<>> =>
                    /\ OutputPath \in DOMAIN downloads
                    /\ downloads[OutputPath] =
                          [url |-> Opened[Len(Opened)].url,
                           complete |-> Opened[Len(Opened)].success]
              /\ manifest # <<>> => manifest[1].successful = Len(Successes))
    /\ [][ downloads' # downloads =>
              /\ script = "download_file" /\ pc = "process" /\ ~options.dry_run
              /\ LET made == batch'.results[Len(batch'.results)]
                 IN  /\ made.url = Strip(rows[idx])
                     /\ DOMAIN downloads' = DOMAIN downloads \cup {made.output_path}
                     /\ downloads'[made.output_path] =
                           [url |-> made.url, complete |-> made.success]
                     /\ \A name \in DOMAIN downloads \ {made.output_path} :
                           downloads'[name] = downloads[name]
         ]_vars

\* C30, its case: a batch with --output has ended in which the first URL
\* succeeded and the stream of the second failed, and the file holds the part
\* received of the second
PartialOverSuccess ==
    /\ OutputBatch
    /\ pc = "done"
    /\ Len(batch.results) = 2
    /\ batch.results[1].success
    /\ ~batch.results[2].success
    /\ batch.results[1].url # batch.results[2].url
    /\ downloads[OutputPath] = [url |-> batch.results[2].url, complete |-> FALSE]
    /\ manifest[1].successful = 1

====
